---- MODULE Spec2Model ----
(***************************************************************************)
(* Model of the LeClark community bot: the submission review queue        *)
(* (cogs/submissions.py over database.py) and the web panel's action      *)
(* queue with its single worker (cogs/panel_handler.py, web_server.py).   *)
(*                                                                         *)
(* Every coroutine is cut at the awaits that matter: an action is the     *)
(* stretch of a handler between two suspension points, so handlers        *)
(* interleave exactly where the event loop lets them.                      *)
(***************************************************************************)
EXTENDS Integers, Sequences, FiniteSets, TLC

\* ---- bounds of the model ------------------------------------------------
MaxSubs == 3        \* rows ever inserted into music_submissions
MaxViews == 2       \* ReviewItemView instances alive at once
MaxInflight == 2    \* handlers suspended at an await at once
MaxCount == 2       \* cap of regular_session_reviewed_count
MaxTasks == 3       \* tasks ever put on the action queue
MaxTails == 2       \* panel / widget refreshes in flight at once
MaxMsgs == 3        \* panel messages ever posted
MaxPosts == 2       \* PostPanel calls in flight at once
MaxConns == 3       \* widget sockets
MaxWarns == 3       \* rows of the warnings table
MaxSnaps == 2       \* full_update messages in flight at once

Guilds == {1, 2}
Users == {1, 2}     \* submitters (message authors)
Mods == {8, 9}      \* staff members pressing buttons
Slots == 1..MaxInflight

\* ---- program constants --------------------------------------------------
NULL == 0           \* SQL NULL / Python None: no member has id 0
Epoch == 0          \* '1970-01-01 00:00:00', always before utcnow()

VARIABLES
  subs,               \* music_submissions: submission_id -> row
  nextId,             \* AUTOINCREMENT of submission_id
  now,                \* datetime.utcnow(), strictly increasing
  submission_status,  \* guild_settings.submission_status
  session_count,      \* SubmissionsCog.regular_session_reviewed_count
  views,              \* live ReviewItemView instances
  h,                  \* suspended handlers (one coroutine per slot)
  ever,               \* history: <<guild, user>> that ever inserted a row
  last,               \* history: the step taken last
  action_queue,       \* MyBot.action_queue (asyncio.Queue), head first
  unfinished,         \* asyncio.Queue's count of tasks not yet task_done()
  wcur,               \* the task the worker holds between get() and its end
  alive,              \* the tasks.loop of process_action_queue is running
  members,            \* members of the guild
  member_roles,       \* member -> roles held
  bot_top,            \* position of guild.me.top_role
  role_cfg,           \* guild_settings admin_role_ids / mod_role_ids, split at ','
  enq,                \* history: every task put, in order; its index is its id
  dispatched,         \* history: ids in the order their dispatch started
  ended,              \* history: ids in the order their dispatch ended
  acks,               \* history: id -> number of task_done() calls for it
  outcome,            \* history: id -> how its dispatch ended
  resp,               \* the answer of the web request handled last
  review_panel_message_id,  \* guild_settings.review_panel_message_id (0: unset)
  msgs,               \* panel messages in the review channels
  nextMsg,            \* id of the next message the platform creates
  panel_update_locks, \* SubmissionsCog.panel_update_locks: guild -> holder
  tails,              \* the refresh a handler runs after its store writes
  posts,              \* PostPanel calls in flight
  widget,             \* guild -> the last full_update handed to broadcast
  watch,              \* guild -> where check_single_panel("submissions") stands
  plast,              \* history: the last step on a panel
  active_connections, \* WebSocketManager.active_connections: guild -> sockets
  bc,                 \* the broadcast in flight, suspended at a send
  blast,              \* history: the broadcast that returned last, until the next
  snaps,              \* full_update messages between their computation and their last send
  received,           \* socket -> the full_update it was sent last
  sent,               \* history: id -> what the worker sent to the channel for it
  warnings,           \* the warnings table, in the order of the inserts
  warn_cfg,           \* guild_settings log_channel_id, warning_limit, warning_action
  wlast               \* history: the issue_warning call that ended last

wvars == <<action_queue, unfinished, wcur, alive, members, member_roles, bot_top,
           role_cfg,
           enq, dispatched, ended, acks, outcome, resp>>

qvars == <<subs, nextId, now, submission_status, session_count, views, h,
           ever, last>>

pvars == <<review_panel_message_id, msgs, nextMsg, panel_update_locks, tails,
           posts, widget, watch, plast>>

bvars == <<active_connections, bc, blast>>

fvars == <<snaps, received>>

mvars == <<sent, warnings, warn_cfg, wlast>>

vars == <<qvars, wvars, pvars, bvars, fvars, mvars>>

Idle == [kind |-> "idle", pc |-> "-", guild |-> 0, user |-> 0, id |-> 0,
         mod |-> 0, path |-> "-"]
NoView == [sub |-> 0, guild |-> 0, st |-> "none"]
Did(op, g, id, n) == [op |-> op, guild |-> g, id |-> id, n |-> n]

Rows(g) == {i \in DOMAIN subs : subs[i].guild = g /\ subs[i].type = "regular"}
WithStatus(g, st) == {i \in Rows(g) : subs[i].status = st}

\* ---- database.py --------------------------------------------------------

\* add_submission: INSERT ... status 'pending', submitted_at utcnow()
add_submission(g, u, id) ==
  [i \in (DOMAIN subs) \cup {id} |->
     IF i = id
       THEN [guild |-> g, user |-> u, type |-> "regular", status |-> "pending",
             submitted_at |-> now, reviewer |-> NULL,
             added_at |-> now, first |-> (<<g, u>> \notin ever),
             boosted |-> FALSE, done |-> FALSE]
       ELSE subs[i]]

\* get_user_submission_count: COUNT(*) of the user's rows in the guild
get_user_submission_count(g, u) ==
  Cardinality({i \in Rows(g) : subs[i].user = u})

\* get_submission_queue_count: COUNT(*) of the guild's pending rows
get_submission_queue_count(g) == Cardinality(WithStatus(g, "pending"))

\* get_total_reviewed_count: COUNT(DISTINCT submission_id) of reviewed rows
CountReviewedSubmitters(g) == Cardinality({subs[i].user : i \in WithStatus(g, "reviewed")})
get_total_reviewed_count(g) == Cardinality(WithStatus(g, "reviewed"))

\* get_next_submission: WHERE status = 'pending' ORDER BY submitted_at ASC
\* LIMIT 1; rows with equal submitted_at come in no defined order.
NextIgnoringStatus(g) ==
  {i \in Rows(g) : \A j \in Rows(g) : subs[i].submitted_at <= subs[j].submitted_at}
NextByDesc(g) ==
  {i \in WithStatus(g, "pending") :
     \A j \in WithStatus(g, "pending") : subs[i].submitted_at >= subs[j].submitted_at}
get_next_submission(g) ==
  {i \in WithStatus(g, "pending") :
     \A j \in WithStatus(g, "pending") : subs[i].submitted_at <= subs[j].submitted_at}

\* update_submission_status: UPDATE ... SET status, reviewer_id WHERE id
UpdateStatusOnly(id, st, rev) ==
  [i \in DOMAIN subs |->
     IF i = id THEN [subs[i] EXCEPT !.status = st] ELSE subs[i]]
UpdateFirstWriterWins(id, st, rev) ==
  [i \in DOMAIN subs |->
     IF i = id /\ subs[i].status # st
       THEN [subs[i] EXCEPT !.status = st, !.reviewer = rev] ELSE subs[i]]
UpdateKeepsReviewer(id, st, rev) ==
  [i \in DOMAIN subs |->
     IF i = id
       THEN [subs[i] EXCEPT !.status = st,
                            !.reviewer = IF rev = NULL THEN @ ELSE rev]
       ELSE subs[i]]
update_submission_status(id, st, rev) ==
  [i \in DOMAIN subs |->
     IF i = id THEN [subs[i] EXCEPT !.status = st, !.reviewer = rev] ELSE subs[i]]

\* clear_session_submissions: DELETE ... WHERE guild AND type AND status != 'reviewed'
ClearAllOfGuild(g) ==
  [i \in {j \in DOMAIN subs : subs[j].guild # g} |-> subs[i]]
clear_session_submissions(g) ==
  [i \in {j \in DOMAIN subs :
            ~(subs[j].guild = g /\ subs[j].type = "regular"
              /\ subs[j].status # "reviewed")} |-> subs[i]]

\* prioritize_submission: UPDATE ... SET submitted_at = epoch WHERE id
prioritize_submission(id) ==
  [i \in DOMAIN subs |->
     IF i = id THEN [subs[i] EXCEPT !.submitted_at = Epoch, !.boosted = TRUE]
     ELSE subs[i]]

\* the reset's SELECT ... WHERE status = 'reviewing' LIMIT 1 (no ORDER BY)
stuck_submission(g) == WithStatus(g, "reviewing")

MarkDone(s, id) ==
  [i \in DOMAIN s |-> IF i = id THEN [s[i] EXCEPT !.done = TRUE] ELSE s[i]]

FreeSlots == {k \in Slots : h[k].kind = "idle"}
ViewIds == 1..MaxViews
FreeViews(V) == {v \in V : views[v].st = "none"}

\* ---- cogs/submissions.py ------------------------------------------------

QInit ==
  /\ subs = <<>>
  /\ nextId = 1
  /\ now = 1
  /\ submission_status = [g \in Guilds |-> "closed"]
  /\ session_count = [g \in Guilds |-> 0]
  /\ views = [v \in ViewIds |-> NoView]
  /\ h = [k \in Slots |-> Idle]
  /\ ever = {}
  /\ last = Did("init", 0, 0, 0)

\* SubmissionViewClosed.start_submissions
OpenSession(g) ==
  /\ session_count' = [session_count EXCEPT ![g] = 0]
  /\ submission_status' = [submission_status EXCEPT ![g] = "open"]
  /\ last' = Did("OpenSession", g, 0, 0)
  /\ UNCHANGED <<subs, nextId, now, views, h, ever>>

\* SubmissionViewOpen.stop_submissions, up to the end of the DELETE
CloseClear(g, k) ==
  /\ k \in FreeSlots
  /\ subs' = clear_session_submissions(g)
  /\ h' = [h EXCEPT ![k] = [Idle EXCEPT !.kind = "close", !.pc = "cleared",
                                         !.guild = g, !.id = session_count[g]]]
  /\ last' = Did("CloseClear", g, 0, Cardinality(DOMAIN subs) - Cardinality(DOMAIN subs'))
  /\ UNCHANGED <<nextId, now, submission_status, session_count, views, ever>>

\* stop_submissions, the update_setting that follows
CloseSetStatus(k) ==
  /\ h[k].kind = "close"
  /\ submission_status' = [submission_status EXCEPT ![h[k].guild] = "closed"]
  /\ h' = [h EXCEPT ![k] = Idle]
  /\ last' = Did("CloseSession", h[k].guild, 0, h[k].id)
  /\ UNCHANGED <<subs, nextId, now, session_count, views, ever>>

\* on_message, the read of submission_status
IngestCheck(g, u, k) ==
  /\ k \in FreeSlots
  /\ nextId + Cardinality({j \in Slots : h[j].kind = "ingest" /\ h[j].pc = "checked"})
       <= MaxSubs
  /\ submission_status[g] = "open"
  /\ h' = [h EXCEPT ![k] = [Idle EXCEPT !.kind = "ingest", !.pc = "checked",
                                         !.guild = g, !.user = u]]
  /\ last' = Did("IngestCheck", g, 0, 0)
  /\ UNCHANGED <<subs, nextId, now, submission_status, session_count, views,
                 ever>>

\* on_message, add_submission
IngestAdd(k) ==
  /\ h[k].kind = "ingest" /\ h[k].pc = "checked"
  /\ subs' = add_submission(h[k].guild, h[k].user, nextId)
  /\ nextId' = nextId + 1
  /\ now' = now + 1
  /\ ever' = ever \cup {<<h[k].guild, h[k].user>>}
  /\ h' = [h EXCEPT ![k].pc = "added", ![k].id = nextId]
  /\ last' = Did("IngestAdd", h[k].guild, nextId, 0)
  /\ UNCHANGED <<submission_status, session_count, views>>

\* on_message, get_user_submission_count and prioritize_submission
IsFirstTime(g, u) == get_user_submission_count(g, u) = 1

IngestPrioritize(k) ==
  /\ h[k].kind = "ingest" /\ h[k].pc = "added"
  /\ subs' = MarkDone(IF IsFirstTime(h[k].guild, h[k].user)
                        THEN prioritize_submission(h[k].id) ELSE subs, h[k].id)
  /\ h' = [h EXCEPT ![k] = Idle]
  /\ last' = Did("Ingest", h[k].guild, h[k].id,
                 IF IsFirstTime(h[k].guild, h[k].user) THEN 1 ELSE 0)
  /\ UNCHANGED <<nextId, now, submission_status, session_count, views, ever>>

\* SubmissionViewOpen.play_queue, get_next_submission
DequeueSelect(g, m, k, V) ==
  /\ k \in FreeSlots
  /\ Cardinality(FreeViews(V)) > Cardinality({j \in Slots : h[j].kind = "dequeue"})
  /\ \E id \in get_next_submission(g) :
       /\ h' = [h EXCEPT ![k] = [Idle EXCEPT !.kind = "dequeue", !.pc = "selected",
                                              !.guild = g, !.id = id, !.mod = m]]
       /\ last' = Did("DequeueSelect", g, id, 0)
  /\ UNCHANGED <<subs, nextId, now, submission_status, session_count, views, ever>>

\* play_queue, update_submission_status and the ReviewItemView it sends
DequeueMark(k, V) ==
  /\ h[k].kind = "dequeue"
  /\ subs' = update_submission_status(h[k].id, "reviewing", h[k].mod)
  /\ LET v == CHOOSE x \in FreeViews(V) : \A y \in FreeViews(V) : x <= y
     IN views' = [views EXCEPT ![v] = [sub |-> h[k].id, guild |-> h[k].guild,
                                        st |-> "live"]]
  /\ h' = [h EXCEPT ![k] = Idle]
  /\ last' = Did("Dequeue", h[k].guild, h[k].id, 0)
  /\ UNCHANGED <<nextId, now, submission_status, session_count, ever>>

\* ReviewItemView.mark_reviewed
Complete(v, m) ==
  /\ views[v].st = "live"
  /\ session_count[views[v].guild] < MaxCount
  /\ session_count' = [session_count EXCEPT ![views[v].guild] = @ + 1]
  /\ subs' = update_submission_status(views[v].sub, "reviewed", m)
  /\ views' = [views EXCEPT ![v].st = "pressed"]
  /\ last' = Did("Complete", views[v].guild, views[v].sub, 0)
  /\ UNCHANGED <<nextId, now, submission_status, h, ever>>

\* ReviewItemView.on_timeout
Timeout(v) ==
  /\ views[v].st \in {"live", "pressed"}
  /\ subs' = update_submission_status(views[v].sub, "pending", NULL)
  /\ views' = [views EXCEPT ![v] = NoView]
  /\ last' = Did("Timeout", views[v].guild, views[v].sub, 0)
  /\ UNCHANGED <<nextId, now, submission_status, session_count, h, ever>>

\* reset_stuck_review (command) and the worker's reset_stuck_review task:
\* the SELECT of a reviewing row
ResetSelect(g, path, k) ==
  /\ k \in FreeSlots
  /\ \E id \in stuck_submission(g) :
       /\ h' = [h EXCEPT ![k] = [Idle EXCEPT !.kind = "reset", !.pc = "selected",
                                              !.guild = g, !.id = id, !.path = path]]
       /\ last' = Did("ResetSelect", g, id, 0)
  /\ UNCHANGED <<subs, nextId, now, submission_status, session_count, views,
                 ever>>

\* the reset found nothing: it answers and returns
ResetNone(g, path) ==
  /\ stuck_submission(g) = {}
  /\ last' = Did("ResetNone", g, 0, 0)
  /\ UNCHANGED <<subs, nextId, now, submission_status, session_count, views, h,
                 ever>>

\* the reset's update_submission_status(id, "pending", None)
ResetApply(k) ==
  /\ h[k].kind = "reset"
  /\ subs' = update_submission_status(h[k].id, "pending", NULL)
  /\ h' = [h EXCEPT ![k] = Idle]
  /\ last' = Did(IF h[k].path = "task" THEN "ResetTask" ELSE "ResetCommand",
                 h[k].guild, h[k].id,
                 IF h[k].id \in DOMAIN subs /\ subs[h[k].id].status = "reviewing"
                   THEN 1 ELSE 0)
  /\ UNCHANGED <<nextId, now, submission_status, session_count, views, ever>>

\* play_queue on an empty queue: "The submission queue is empty!"
DequeueEmpty(g, m) ==
  /\ get_next_submission(g) = {}
  /\ last' = Did("DequeueEmpty", g, 0, 0)
  /\ UNCHANGED <<subs, nextId, now, submission_status, session_count, views, h, ever>>

\* One step of the submission engine, for the guilds G, submitters U, staff M
\* coroutine slots K and view instances V that take part.
QStep(G, U, M, K, V) ==
  \/ \E g \in G : OpenSession(g) /\ UNCHANGED <<wvars, pvars, bvars, fvars, mvars>>
  \/ \E g \in G, k \in K : CloseClear(g, k) /\ UNCHANGED <<wvars, pvars, bvars, fvars, mvars>>
  \/ \E k \in K : CloseSetStatus(k) /\ UNCHANGED <<wvars, pvars, bvars, fvars, mvars>>
  \/ \E g \in G, u \in U, k \in K : IngestCheck(g, u, k) /\ UNCHANGED <<wvars, pvars, bvars, fvars, mvars>>
  \/ \E k \in K : IngestAdd(k) /\ UNCHANGED <<wvars, pvars, bvars, fvars, mvars>>
  \/ \E k \in K : IngestPrioritize(k) /\ UNCHANGED <<wvars, pvars, bvars, fvars, mvars>>
  \/ \E g \in G, m \in M, k \in K : DequeueSelect(g, m, k, V) /\ UNCHANGED <<wvars, pvars, bvars, fvars, mvars>>
  \/ \E g \in G, m \in M : DequeueEmpty(g, m) /\ UNCHANGED <<wvars, pvars, bvars, fvars, mvars>>
  \/ \E k \in K : DequeueMark(k, V) /\ UNCHANGED <<wvars, pvars, bvars, fvars, mvars>>
  \/ \E v \in V, m \in M : Complete(v, m) /\ UNCHANGED <<wvars, pvars, bvars, fvars, mvars>>
  \/ \E v \in V : Timeout(v) /\ UNCHANGED <<wvars, pvars, bvars, fvars, mvars>>
  \/ \E g \in G, p \in {"command", "task"}, k \in K : ResetSelect(g, p, k) /\ UNCHANGED <<wvars, pvars, bvars, fvars, mvars>>
  \/ \E g \in G, p \in {"command", "task"} : ResetNone(g, p) /\ UNCHANGED <<wvars, pvars, bvars, fvars, mvars>>
  \/ \E k \in K : ResetApply(k) /\ UNCHANGED <<wvars, pvars, bvars, fvars, mvars>>

\* The process ends and main.py starts it again: the store is a file and
\* stays, while the coroutines, the ReviewItemView instances with their timers
\* and the cog's counters are gone.  setup_hook adds the four persistent views
\* only; no ReviewItemView is made for a row left in reviewing.
Restart ==
  /\ views' = [v \in ViewIds |-> NoView]
  /\ h' = [k \in Slots |-> Idle]
  /\ session_count' = [g \in Guilds |-> 0]
  /\ last' = Did("Restart", 0, 0, 0)
  /\ UNCHANGED <<subs, nextId, now, submission_status, ever>>

\* Reviews of the guilds G with no manual reset, the process restarting now
\* and then.
ReviewStep(G, U, M, K, V) ==
  \/ \E g \in G : OpenSession(g) /\ UNCHANGED <<wvars, pvars, bvars, fvars, mvars>>
  \/ \E g \in G, u \in U, k \in K : IngestCheck(g, u, k) /\ UNCHANGED <<wvars, pvars, bvars, fvars, mvars>>
  \/ \E k \in K : IngestAdd(k) /\ UNCHANGED <<wvars, pvars, bvars, fvars, mvars>>
  \/ \E k \in K : IngestPrioritize(k) /\ UNCHANGED <<wvars, pvars, bvars, fvars, mvars>>
  \/ \E g \in G, m \in M, k \in K : DequeueSelect(g, m, k, V) /\ UNCHANGED <<wvars, pvars, bvars, fvars, mvars>>
  \/ \E k \in K : DequeueMark(k, V) /\ UNCHANGED <<wvars, pvars, bvars, fvars, mvars>>
  \/ \E v \in V, m \in M : Complete(v, m) /\ UNCHANGED <<wvars, pvars, bvars, fvars, mvars>>
  \/ \E v \in V : Timeout(v) /\ UNCHANGED <<wvars, pvars, bvars, fvars, mvars>>
  \/ Restart /\ UNCHANGED <<wvars, pvars, bvars, fvars, mvars>>

\* The same with no restart.
NoRestartStep(G, U, M, K, V) ==
  ReviewStep(G, U, M, K, V) /\ last'.op # "Restart"

\* Sessions being opened and closed while messages are ingested, the handlers
\* of K overlapping at their awaits.
IngestStep(G, U, K) ==
  \/ \E g \in G : OpenSession(g) /\ UNCHANGED <<wvars, pvars, bvars, fvars, mvars>>
  \/ \E g \in G, k \in K : CloseClear(g, k) /\ UNCHANGED <<wvars, pvars, bvars, fvars, mvars>>
  \/ \E k \in K : CloseSetStatus(k) /\ UNCHANGED <<wvars, pvars, bvars, fvars, mvars>>
  \/ \E g \in G, u \in U, k \in K : IngestCheck(g, u, k) /\ UNCHANGED <<wvars, pvars, bvars, fvars, mvars>>
  \/ \E k \in K : IngestAdd(k) /\ UNCHANGED <<wvars, pvars, bvars, fvars, mvars>>
  \/ \E k \in K : IngestPrioritize(k) /\ UNCHANGED <<wvars, pvars, bvars, fvars, mvars>>

\* Staff pressing "Play the Queue" while messages come in, the handlers of K
\* overlapping at their awaits.
DequeueStep(G, U, M, K, V) ==
  \/ \E g \in G : OpenSession(g) /\ UNCHANGED <<wvars, pvars, bvars, fvars, mvars>>
  \/ \E g \in G, u \in U, k \in K : IngestCheck(g, u, k) /\ UNCHANGED <<wvars, pvars, bvars, fvars, mvars>>
  \/ \E k \in K : IngestAdd(k) /\ UNCHANGED <<wvars, pvars, bvars, fvars, mvars>>
  \/ \E k \in K : IngestPrioritize(k) /\ UNCHANGED <<wvars, pvars, bvars, fvars, mvars>>
  \/ \E g \in G, m \in M, k \in K : DequeueSelect(g, m, k, V) /\ UNCHANGED <<wvars, pvars, bvars, fvars, mvars>>
  \/ \E g \in G, m \in M : DequeueEmpty(g, m) /\ UNCHANGED <<wvars, pvars, bvars, fvars, mvars>>
  \/ \E k \in K : DequeueMark(k, V) /\ UNCHANGED <<wvars, pvars, bvars, fvars, mvars>>

\* ---- web_server.py: the producers of the action queue -------------------

TaskIds == 1..MaxTasks
NoTask == [id |-> 0, action |-> "-", target |-> "-", role_type |-> "-",
           role_action |-> "-", is_embed |-> "-", content |-> <<>>]
Task(action, target, rt, ra) ==
  [id |-> Len(enq) + 1, action |-> action, target |-> target, role_type |-> rt,
   role_action |-> ra, is_embed |-> "-", content |-> <<>>]

\* ---- messages and warnings (web_server.py, panel_handler.py, moderation.py)

\* form.get('is_embed'): the field's text, "None" when the form has no such field
FormFlags == {"true", "false", "None"}
\* message_content, character by character
Bar == "|"
Contents == {<<"T">>, <<"T", Bar, "D">>, <<"T", Bar, "D", Bar, "E">>, <<Bar, "D">>}

\* api_send_message: "is_embed": form.get('is_embed') == 'true', a bool
\* (written "True" / "False" here, the strings of the form in lower case)
IsEmbedOfForm(flag) == IF flag = "true" THEN "True" ELSE "False"

\* the worker's test: task.get('is_embed') == 'true'
WantsEmbed(task) == task.is_embed = "true"

\* content.split('|', 1)
FirstBar(c) == CHOOSE i \in 1 .. Len(c) : c[i] = Bar /\ \A j \in 1 .. (i - 1) : c[j] # Bar
split_once(c) ==
  IF \E i \in 1 .. Len(c) : c[i] = Bar
    THEN <<SubSeq(c, 1, FirstBar(c) - 1), SubSeq(c, FirstBar(c) + 1, Len(c))>>
    ELSE <<c>>

NoSent == [kind |-> "-", title |-> <<>>, description |-> <<>>, content |-> <<>>]
\* discord.Embed(title=parts[0], description=parts[1] if len(parts) > 1 else " ")
Embed(c) ==
  [kind |-> "embed", title |-> split_once(c)[1],
   description |-> IF Len(split_once(c)) > 1 THEN split_once(c)[2] ELSE <<" ">>,
   content |-> <<>>]
\* channel.send(task.get('content'))
Text(c) == [kind |-> "text", title |-> <<>>, description |-> <<>>, content |-> c]

\* self.bot handed over where a Member is expected: it has no attribute guild
BotObject == 0 - 1

NoWarning == [how |-> "-", target |-> 0, moderator |-> 0, count |-> 0, limit |-> 0,
              n |-> 0]

MInit ==
  /\ sent = [i \in 1 .. MaxTasks |-> NoSent]
  /\ warnings = <<>>
  /\ warn_cfg = [log_channel |-> TRUE, limit |-> 3, action |-> "mute"]
  /\ wlast = NoWarning

\* database.py add_warning, get_warnings_count, clear_warnings
add_warning(w, user_id, moderator_id) ==
  Append(w, [user |-> user_id, moderator |-> moderator_id])
get_warnings_count(w, user_id) ==
  Cardinality({i \in 1 .. Len(w) : w[i].user = user_id})
clear_warnings(w, user_id) ==
  LET keep(r) == r.user # user_id IN SelectSeq(w, keep)

\* get_setting(guild.id, 'warning_limit') or 3; ... 'warning_action') or 'mute'
warning_limit == IF warn_cfg.limit = 0 THEN 3 ELSE warn_cfg.limit
action_type == IF warn_cfg.action = "None" THEN "mute" ELSE warn_cfg.action

\* ModerationCog.issue_warning(target, moderator, reason): how the call may
\* end, with the warnings table and the guild's members it leaves behind.
\* mute_member and ban_member catch discord.Forbidden, target.kick does not;
\* below the limit the call reads action_log_embed, a local that only the
\* other branch assigns.
WarnEnd(how, w, mem, n) == [how |-> how, warnings |-> w, members |-> mem, count |-> n]
issue_warning(target, moderator) ==
  IF target = BotObject THEN                      \* guild = target.guild
    {WarnEnd("AttributeError", warnings, members, 0)}
  ELSE IF ~warn_cfg.log_channel THEN
    {WarnEnd("returned", warnings, members, 0)}
  ELSE
    LET w1 == add_warning(warnings, target, moderator)
        new_warnings_count == get_warnings_count(w1, target)
    IN IF new_warnings_count >= warning_limit
         THEN CASE action_type = "mute" ->
                     {WarnEnd("returned", clear_warnings(w1, target), members,
                              new_warnings_count)}
                [] action_type = "kick" ->
                     {WarnEnd("returned", clear_warnings(w1, target),
                              members \ {target}, new_warnings_count),
                      WarnEnd("Forbidden", w1, members, new_warnings_count)}
                [] action_type = "ban" ->
                     {WarnEnd("returned", clear_warnings(w1, target),
                              members \ {target}, new_warnings_count),
                      WarnEnd("returned", clear_warnings(w1, target), members,
                              new_warnings_count)}
                [] OTHER ->
                     {WarnEnd("returned", clear_warnings(w1, target), members,
                              new_warnings_count)}
         ELSE {WarnEnd("UnboundLocalError", w1, members, new_warnings_count)}

Warned(target, moderator, o) ==
  [how |-> o.how, target |-> target, moderator |-> moderator, count |-> o.count,
   limit |-> warning_limit, n |-> 1 - wlast.n]

TargetIds == {"1", "2", "abc"}   \* the form's target_id: two members, a malformed id
IsInt(str) == str \in {"1", "2"}
ToInt(str) == IF str = "1" THEN 1 ELSE 2

\* roles are named by their position in the guild's hierarchy
Roles == {1, 2, 3}
EveryonePos == 0
\* guild_settings admin_role_ids / mod_role_ids, already split at ','
\* (a role_type that names no column of the settings yields no role)
role_ids(role_type) ==
  IF role_type \in DOMAIN role_cfg THEN role_cfg[role_type] ELSE <<>>

\* the settings of a guild set up as intended, and of one where the admin role
\* was never configured and the configured mod role was deleted from the guild
CfgUsual == [admin |-> <<2>>, mod |-> <<1>>]
CfgBroken == [admin |-> <<>>, mod |-> <<4>>]

\* the answer of a request: the endpoint, the HTTP status, the id of the task
\* it queued (0: none)
NoResp == [api |-> "-", code |-> 0, task |-> 0]
Queued(api) == [api |-> api, code |-> 200, task |-> Len(enq) + 1]
Refused(api, code) == [api |-> api, code |-> code, task |-> 0]

WInit ==
  /\ action_queue = <<>>
  /\ unfinished = 0
  /\ wcur = NoTask
  /\ alive = TRUE
  /\ member_roles = [m \in {1, 2} |-> IF m = 2 THEN {3} ELSE {}]
  /\ \E sc \in { <<3, CfgUsual, {1, 2, 9}>>,   \* everything in place
                 <<2, CfgUsual, {1, 2, 9}>>,   \* the bot sits no higher than the admin role
                 <<3, CfgBroken, {1, 2, 9}>>,
                 <<3, CfgUsual, {1, 2}>> } :   \* the moderator has left the guild
       /\ bot_top = sc[1]
       /\ role_cfg = sc[2]
       /\ members = sc[3]
  /\ enq = <<>>
  /\ dispatched = <<>>
  /\ ended = <<>>
  /\ acks = [i \in TaskIds |-> 0]
  /\ outcome = [i \in TaskIds |-> "-"]
  /\ resp = NoResp

\* the mutation of put_nowait: a request whose like is waiting is not queued
SameRequest(a, b) == [a EXCEPT !.id = 0] = [b EXCEPT !.id = 0]
PutUnlessQueued(task) ==
  /\ Len(enq) < MaxTasks
  /\ IF \E i \in 1..Len(action_queue) : SameRequest(action_queue[i], task)
       THEN UNCHANGED <<action_queue, unfinished, enq>>
       ELSE /\ action_queue' = Append(action_queue, task)
            /\ unfinished' = unfinished + 1
            /\ enq' = Append(enq, task)
  /\ UNCHANGED <<wcur, alive, members, member_roles, bot_top, role_cfg, dispatched, ended,
                 acks, outcome>>

\* asyncio.Queue.put_nowait
put_nowait(task) ==
  /\ Len(enq) < MaxTasks
  /\ action_queue' = Append(action_queue, task)
  /\ unfinished' = unfinished + 1
  /\ enq' = Append(enq, task)
  /\ UNCHANGED <<wcur, alive, members, member_roles, bot_top, role_cfg, dispatched, ended,
                 acks, outcome>>

\* api_manage_staff, the requester being a bot admin
ApiManageStaff(target, rt, ra) ==
  put_nowait(Task("manage_staff", target, rt, ra)) /\ resp' = Queued("manage_staff")
\* api_moderate_user (mod_action kick), the form filled in
ApiModerate(target) ==
  put_nowait(Task("moderate_user", target, "-", "kick")) /\ resp' = Queued("moderate_user")
\* api_moderate_user (mod_action warn), the form filled in
ApiWarn(target) ==
  put_nowait(Task("moderate_user", target, "-", "warn")) /\ resp' = Queued("moderate_user")
\* api_send_message, the form filled in
ApiSendMessage(flag, content) ==
  /\ put_nowait([Task("send_message", "-", "-", "-") EXCEPT
                   !.is_embed = IsEmbedOfForm(flag), !.content = content])
  /\ resp' = Queued("send_message")
\* api_reset_stuck_review
ApiResetStuck ==
  put_nowait(Task("reset_stuck_review", "-", "-", "-"))
    /\ resp' = Queued("reset_stuck_review")

\* a request that is answered with an error: the handler returns before
\* put_nowait
Refuse(api, code) ==
  /\ resp' = Refused(api, code)
  /\ UNCHANGED <<action_queue, unfinished, wcur, alive, members, member_roles, bot_top,
                 role_cfg, enq, dispatched, ended, acks, outcome>>
\* api_moderate_user without target_id or mod_action
ApiModerateInvalid == Refuse("moderate_user", 400)
\* api_send_message without channel_id or message_content
ApiSendMessageInvalid == Refuse("send_message", 400)
\* api_manage_staff, the requester not being a bot admin
ApiManageStaffDenied == Refuse("manage_staff", 403)

\* api_manage_staff as a whole.  form.get yields "None" for a field the form
\* lacks; the task is built with all its keys whatever the form holds, and
\* "k in task" asks for the key, not for its value.
HasKeys(task) == {"target", "role_type", "role_action"} \subseteq DOMAIN task
api_manage_staff(is_admin, target, rt, ra) ==
  IF ~is_admin THEN Refuse("manage_staff", 403)
  ELSE IF ~HasKeys(Task("manage_staff", target, rt, ra))
         THEN Refuse("manage_staff", 400)
  ELSE put_nowait(Task("manage_staff", target, rt, ra)) /\ resp' = Queued("manage_staff")

\* ---- cogs/panel_handler.py: process_action_queue -------------------------

RemoveAt(q, i) == SubSeq(q, 1, i - 1) \o SubSeq(q, i + 1, Len(q))

\* asyncio.Queue.get: the position of the item it hands out
GetsLast(q) == Len(q)
QueueGet(q) == 1

\* "task = await self.bot.action_queue.get()"
WorkerGet ==
  /\ alive /\ wcur = NoTask /\ action_queue # <<>>
  /\ wcur' = action_queue[QueueGet(action_queue)]
  /\ action_queue' = RemoveAt(action_queue, QueueGet(action_queue))
  /\ dispatched' = Append(dispatched, action_queue[QueueGet(action_queue)].id)
  /\ UNCHANGED <<unfinished, alive, members, member_roles, bot_top, role_cfg, enq, ended,
                 acks, outcome, resp>>

\* The end of one iteration. how: "done" = task_done() on the way out (an
\* early return or line 167), "raised" = an exception reached the loop's own
\* except clause, which calls task_done() only while the queue is not empty.
Acks(how) == how # "raised" \/ action_queue # <<>>

\* the mutation of LeavesLoopBody: the loop has no except clause of its own
LeavesWhenRaised(how) == how = "raised"
\* the loop's own "except Exception as e": what a dispatch raises (ValueError
\* of int(), discord.HTTPException) ends there, nothing leaves the loop body
LeavesLoopBody(how) == FALSE

EndIteration(how, result) ==
  /\ wcur' = NoTask
  /\ ended' = Append(ended, wcur.id)
  /\ outcome' = [outcome EXCEPT ![wcur.id] = result]
  /\ IF Acks(how)
       THEN IF unfinished > 0
              THEN /\ unfinished' = unfinished - 1
                   /\ acks' = [acks EXCEPT ![wcur.id] = @ + 1]
                   /\ alive' = (alive /\ ~LeavesLoopBody(how))
              ELSE \* task_done() raises ValueError out of the loop body
                   /\ alive' = FALSE
                   /\ UNCHANGED <<unfinished, acks>>
       ELSE /\ alive' = (alive /\ ~LeavesLoopBody(how))
            /\ UNCHANGED <<unfinished, acks>>
  /\ UNCHANGED <<action_queue, bot_top, role_cfg, enq, dispatched, resp>>

TopRoleIgnored(m) == EveryonePos
top_role(m) ==
  LET ps == member_roles[m] \cup {EveryonePos}
  IN CHOOSE p \in ps : \A q \in ps : q <= p

\* Member.add_roles / Member.remove_roles
add_roles(m, r) == [member_roles EXCEPT ![m] = @ \cup {r}]
RemoveKeepsRole(m, r) == member_roles
remove_roles(m, r) == [member_roles EXCEPT ![m] = @ \ {r}]

\* action == 'manage_staff'
DispatchManageStaff ==
  /\ wcur.action = "manage_staff"
  /\ IF 9 \notin members THEN                      \* moderator not found
       EndIteration("done", "dropped") /\ UNCHANGED <<members, member_roles>>
     ELSE IF ~IsInt(wcur.target) THEN               \* int() raises, caught inside
       EndIteration("done", "dropped") /\ UNCHANGED <<members, member_roles>>
     ELSE IF ToInt(wcur.target) \notin members THEN \* target not found
       EndIteration("done", "dropped") /\ UNCHANGED <<members, member_roles>>
     ELSE IF role_ids(wcur.role_type) = <<>> THEN   \* no role configured
       EndIteration("done", "dropped") /\ UNCHANGED <<members, member_roles>>
     ELSE
       LET target == ToInt(wcur.target)
           role == role_ids(wcur.role_type)[1]
       IN IF role \notin Roles \/ bot_top <= role \/ top_role(target) >= bot_top
            THEN EndIteration("done", "dropped") /\ UNCHANGED <<members, member_roles>>
            ELSE \E res \in {"ok", "forbidden", "error"} :  \* both caught inside
                   IF res = "ok"
                     THEN /\ member_roles' =
                               IF wcur.role_action = "add" THEN add_roles(target, role)
                               ELSE IF wcur.role_action = "remove"
                                      THEN remove_roles(target, role)
                               ELSE member_roles
                          /\ EndIteration("done", "applied")
                          /\ UNCHANGED members
                     ELSE EndIteration("done", "dropped")
                          /\ UNCHANGED <<members, member_roles>>

\* action == 'moderate_user' (kick)
DispatchModerate ==
  /\ wcur.action = "moderate_user"
  /\ IF 9 \notin members THEN
       EndIteration("done", "dropped") /\ UNCHANGED <<members, member_roles, mvars>>
     ELSE IF ~IsInt(wcur.target) THEN               \* int() raises ValueError
       EndIteration("raised", "raised") /\ UNCHANGED <<members, member_roles, mvars>>
     ELSE IF ToInt(wcur.target) \notin members THEN
       EndIteration("done", "dropped") /\ UNCHANGED <<members, member_roles, mvars>>
     ELSE IF wcur.role_action = "warn" THEN
       \* mod_cog.issue_warning(self.bot, target, moderator, reason): the bot
       \* is bound to target and the target to moderator
       \E o \in issue_warning(BotObject, ToInt(wcur.target)) :
         /\ warnings' = o.warnings
         /\ members' = o.members
         /\ wlast' = Warned(BotObject, ToInt(wcur.target), o)
         /\ CASE o.how = "returned" -> EndIteration("done", "applied")
              [] o.how = "Forbidden" -> EndIteration("done", "dropped")
              [] OTHER -> EndIteration("raised", "raised")
         /\ UNCHANGED <<member_roles, sent, warn_cfg>>
     ELSE \E res \in {"ok", "forbidden", "http"} :
            CASE res = "ok" ->
                   /\ members' = members \ {ToInt(wcur.target)}
                   /\ EndIteration("done", "applied")
                   /\ UNCHANGED <<member_roles, mvars>>
              [] res = "forbidden" ->
                   EndIteration("done", "dropped") /\ UNCHANGED <<members, member_roles, mvars>>
              [] OTHER ->
                   EndIteration("raised", "raised") /\ UNCHANGED <<members, member_roles, mvars>>

\* action == 'send_message'
DispatchSendMessage ==
  /\ wcur.action = "send_message"
  /\ \E res \in {"ok", "forbidden", "http"} :
       /\ IF res = "http" THEN EndIteration("raised", "raised")
          ELSE EndIteration("done", IF res = "ok" THEN "applied" ELSE "dropped")
       /\ sent' = IF res = "ok"
                    THEN [sent EXCEPT ![wcur.id] = IF WantsEmbed(wcur)
                                                     THEN Embed(wcur.content)
                                                     ELSE Text(wcur.content)]
                    ELSE sent
  /\ UNCHANGED <<members, member_roles, warnings, warn_cfg, wlast>>

\* action == 'reset_stuck_review'; an error of the store is caught inside
DispatchResetStuck ==
  /\ wcur.action = "reset_stuck_review"
  /\ \E res \in {"ok", "error"} :
       EndIteration("done", IF res = "error" \/ stuck_submission(1) = {}
                              THEN "dropped" ELSE "applied")
  /\ UNCHANGED <<members, member_roles>>

\* bot.get_guild(task.get('guild_id')) finds nothing: the bot has left the guild
DispatchGuildNotFound ==
  /\ wcur # NoTask
  /\ EndIteration("done", "dropped")
  /\ UNCHANGED <<members, member_roles>>

WStep ==
  \/ \E t \in TargetIds, rt \in {"admin", "mod"}, ra \in {"add", "remove"} :
       ApiManageStaff(t, rt, ra) /\ UNCHANGED <<qvars, pvars, bvars, fvars, mvars>>
  \/ \E t \in {"1", "abc"} : ApiModerate(t) /\ UNCHANGED <<qvars, pvars, bvars, fvars, mvars>>
  \/ ApiSendMessage("None", <<"T">>) /\ UNCHANGED <<qvars, pvars, bvars, fvars, mvars>>
  \/ ApiResetStuck /\ UNCHANGED <<qvars, pvars, bvars, fvars, mvars>>
  \/ WorkerGet /\ UNCHANGED <<qvars, pvars, bvars, fvars, mvars>>
  \/ DispatchManageStaff /\ UNCHANGED <<qvars, pvars, bvars, fvars, mvars>>
  \/ DispatchModerate /\ UNCHANGED <<qvars, pvars, bvars, fvars>>
  \/ DispatchSendMessage /\ UNCHANGED <<qvars, pvars, bvars, fvars>>
  \/ DispatchResetStuck /\ UNCHANGED <<qvars, pvars, bvars, fvars, mvars>>
  \/ DispatchGuildNotFound /\ UNCHANGED <<qvars, pvars, bvars, fvars, mvars>>

\* The web panel's requests, accepted and refused, and the worker.
ApiStep ==
  \/ \E ra \in {"add", "remove"} :
       ApiManageStaff("1", "mod", ra) /\ UNCHANGED <<qvars, pvars, bvars, fvars, mvars>>
  \/ ApiManageStaffDenied /\ UNCHANGED <<qvars, pvars, bvars, fvars, mvars>>
  \/ \E t \in {"1", "abc"} : ApiModerate(t) /\ UNCHANGED <<qvars, pvars, bvars, fvars, mvars>>
  \/ ApiModerateInvalid /\ UNCHANGED <<qvars, pvars, bvars, fvars, mvars>>
  \/ ApiSendMessage("None", <<"T">>) /\ UNCHANGED <<qvars, pvars, bvars, fvars, mvars>>
  \/ ApiSendMessageInvalid /\ UNCHANGED <<qvars, pvars, bvars, fvars, mvars>>
  \/ ApiResetStuck /\ UNCHANGED <<qvars, pvars, bvars, fvars, mvars>>
  \/ WorkerGet /\ UNCHANGED <<qvars, pvars, bvars, fvars, mvars>>
  \/ DispatchManageStaff /\ UNCHANGED <<qvars, pvars, bvars, fvars, mvars>>
  \/ DispatchModerate /\ UNCHANGED <<qvars, pvars, bvars, fvars>>
  \/ DispatchSendMessage /\ UNCHANGED <<qvars, pvars, bvars, fvars>>
  \/ DispatchResetStuck /\ UNCHANGED <<qvars, pvars, bvars, fvars, mvars>>
  \/ DispatchGuildNotFound /\ UNCHANGED <<qvars, pvars, bvars, fvars, mvars>>

\* issue_warning called with a member of the guild as its target
IssueWarning(target, moderator) ==
  /\ target \in members
  /\ Len(warnings) < MaxWarns
  /\ \E o \in issue_warning(target, moderator) :
       /\ warnings' = o.warnings
       /\ members' = o.members
       /\ wlast' = Warned(target, moderator, o)
  /\ UNCHANGED <<sent, warn_cfg>>
  /\ UNCHANGED <<action_queue, unfinished, wcur, alive, member_roles, bot_top,
                 role_cfg, enq, dispatched, ended, acks, outcome, resp>>

\* the guild's settings changed by its admins
SetWarnConfig(log_channel, limit, action) ==
  /\ warn_cfg # [log_channel |-> log_channel, limit |-> limit, action |-> action]
  /\ warn_cfg' = [log_channel |-> log_channel, limit |-> limit, action |-> action]
  /\ UNCHANGED <<sent, warnings, wlast>>

\* Warnings issued to the members of one guild while its settings change.
WarnStep ==
  \/ \E t \in Users, m \in Mods :
       IssueWarning(t, m) /\ UNCHANGED <<qvars, pvars, bvars, fvars>>
  \/ \E lc \in BOOLEAN, l \in 0 .. 3, a \in {"None", "mute", "kick", "ban"} :
       SetWarnConfig(lc, l, a) /\ UNCHANGED <<qvars, wvars, pvars, bvars, fvars>>

\* The manage-staff form, filled in or not, sent by admins and by others.
StaffStep ==
  \/ \E a \in BOOLEAN, t \in {"1", "None"}, rt \in {"mod", "None"},
        ra \in {"add", "remove", "None"} :
       api_manage_staff(a, t, rt, ra) /\ UNCHANGED <<qvars, pvars, bvars, fvars, mvars>>
  \/ WorkerGet /\ UNCHANGED <<qvars, pvars, bvars, fvars, mvars>>
  \/ DispatchManageStaff /\ UNCHANGED <<qvars, pvars, bvars, fvars, mvars>>

\* The panel's send-message and warn forms and the worker that serves them.
FormStep ==
  \/ \E f \in FormFlags, c \in Contents :
       ApiSendMessage(f, c) /\ UNCHANGED <<qvars, pvars, bvars, fvars, mvars>>
  \/ \E t \in {"1", "2"} : ApiWarn(t) /\ UNCHANGED <<qvars, pvars, bvars, fvars, mvars>>
  \/ WorkerGet /\ UNCHANGED <<qvars, pvars, bvars, fvars, mvars>>
  \/ DispatchModerate /\ UNCHANGED <<qvars, pvars, bvars, fvars>>
  \/ DispatchSendMessage /\ UNCHANGED <<qvars, pvars, bvars, fvars>>

\* ---- cogs/submissions.py: the panel and the widget ----------------------

TailIds == 1..MaxTails
MsgIds == 1..MaxMsgs
PostIds == 1..MaxPosts

NoMsg == [guild |-> 0, live |-> FALSE, status |-> "-", queue |-> 0]
NoTail == [origin |-> "-", guild |-> 0, pc |-> "-", owner |-> 0, msg |-> 0,
           status |-> "-", queue |-> 0, rank |-> 0, late |-> FALSE]
NoPost == [path |-> "-", guild |-> 0, pc |-> "-", old |-> 0, new |-> 0]
PDid(op, actor, g, m) == [op |-> op, actor |-> actor, guild |-> g, msg |-> m]

\* get_current_review: user_id of the reviewing row, ORDER BY submitted_at LIMIT 1
get_current_review(g) ==
  IF WithStatus(g, "reviewing") = {} THEN {NULL}
  ELSE {subs[i].user : i \in {j \in WithStatus(g, "reviewing") :
          \A l \in WithStatus(g, "reviewing") :
            subs[j].submitted_at <= subs[l].submitted_at}}

\* get_full_widget_data
get_full_widget_data(g) ==
  {[queue |-> get_submission_queue_count(g), reviewing |-> u] :
     u \in get_current_review(g)}

\* What each handler runs once its store writes are done: whether it edits the
\* panel, under the guild's lock or not, whether a NotFound of the edit is
\* caught, and whether a full_update is broadcast afterwards.
PlanWithoutBroadcast(origin) ==
  [panel |-> TRUE, locked |-> TRUE, catch |-> TRUE, bcast |-> FALSE]
TailPlan(origin) ==
  CASE origin \in {"OpenSession", "CloseSession", "IngestPanel"} ->
         [panel |-> TRUE, locked |-> TRUE, catch |-> TRUE, bcast |-> FALSE]
    [] origin = "IngestBroadcast" ->
         [panel |-> FALSE, locked |-> FALSE, catch |-> FALSE, bcast |-> TRUE]
    [] origin = "Complete" ->
         [panel |-> TRUE, locked |-> FALSE, catch |-> FALSE, bcast |-> TRUE]
    [] OTHER ->   \* "Timeout", "Reset"
         [panel |-> TRUE, locked |-> TRUE, catch |-> TRUE, bcast |-> TRUE]

PInit ==
  /\ review_panel_message_id = [g \in Guilds |-> 0]
  /\ msgs = [m \in MsgIds |-> NoMsg]
  /\ nextMsg = 1
  /\ panel_update_locks = [g \in Guilds |-> 0]
  /\ tails = [t \in TailIds |-> NoTail]
  /\ posts = [p \in PostIds |-> NoPost]
  /\ widget = [g \in Guilds |-> [queue |-> 0, reviewing |-> NULL]]
  /\ watch = [g \in Guilds |-> "sleep"]
  /\ plast = PDid("init", "-", 0, 0)

FreeTails(T) == {t \in T : tails[t] = NoTail}
TailsOf(k) == {t \in TailIds : tails[t].owner = k}

\* the handler goes on to its refresh: _update_panel, _update_panel_after_submission,
\* mark_reviewed's own edit, _broadcast_full_update
StartTail(T, g, origin, k) ==
  /\ FreeTails(T) # {}
  /\ LET t == CHOOSE x \in FreeTails(T) : \A y \in FreeTails(T) : x <= y
     IN tails' = [tails EXCEPT ![t] =
          [NoTail EXCEPT !.origin = origin, !.guild = g, !.owner = k,
             !.pc = IF ~TailPlan(origin).panel THEN "bcast"
                    ELSE IF TailPlan(origin).locked THEN "lock" ELSE "fetch"]]
  /\ UNCHANGED <<review_panel_message_id, msgs, nextMsg, panel_update_locks, posts,
                 widget, watch, plast>>

\* where a tail goes once its panel part is over
AfterPanel(t) == IF TailPlan(tails[t].origin).bcast THEN "bcast" ELSE "done"
\* the mutation of Release: the section is left with the lock still held
KeepLock(t) == panel_update_locks
\* another mutation: the lock stays held when a call of the guild is waiting
KeepLockFromWaiters(t) ==
  [g \in Guilds |->
     IF panel_update_locks[g] = t
          /\ ~\E u \in TailIds : tails[u].guild = g /\ tails[u].pc = "lock"
       THEN 0 ELSE panel_update_locks[g]]
Release(t) ==
  [g \in Guilds |-> IF panel_update_locks[g] = t THEN 0 ELSE panel_update_locks[g]]
Finish(t, pc) == IF pc = "done" THEN NoTail ELSE [tails[t] EXCEPT !.pc = pc]

\* "async with self.cog.panel_update_locks[guild.id]"
TailLock(t) ==
  /\ tails[t].pc = "lock"
  /\ panel_update_locks[tails[t].guild] = 0
  /\ panel_update_locks' = [panel_update_locks EXCEPT ![tails[t].guild] = t]
  /\ tails' = [tails EXCEPT ![t].pc = "fetch"]
  /\ UNCHANGED <<review_panel_message_id, msgs, nextMsg, posts, widget, watch, plast>>

\* get_panel_message: None when the id is unset or the message is gone
get_panel_message(g) ==
  IF review_panel_message_id[g] # 0 /\ msgs[review_panel_message_id[g]].live
    THEN review_panel_message_id[g] ELSE 0

TailFetch(t) ==
  /\ tails[t].pc = "fetch"
  /\ IF get_panel_message(tails[t].guild) = 0
       THEN /\ tails' = [tails EXCEPT ![t] = Finish(t, AfterPanel(t))]
            /\ panel_update_locks' = Release(t)
            /\ plast' = PDid("NoPanel", tails[t].origin, tails[t].guild, 0)
       ELSE /\ tails' = [tails EXCEPT ![t].pc = "compute",
                                      ![t].msg = get_panel_message(tails[t].guild)]
            /\ UNCHANGED <<panel_update_locks, plast>>
  /\ UNCHANGED <<review_panel_message_id, msgs, nextMsg, posts, widget, watch>>

\* get_panel_embed_and_view: submission_status and the pending count
Computed(g) == {t \in TailIds : tails[t].guild = g /\ tails[t].pc = "edit"}
TailCompute(t) ==
  /\ tails[t].pc = "compute"
  /\ tails' = [tails EXCEPT ![t].pc = "edit",
                            ![t].status = submission_status[tails[t].guild],
                            ![t].queue = get_submission_queue_count(tails[t].guild),
                            ![t].rank = Cardinality(Computed(tails[t].guild)) + 1]
  /\ UNCHANGED <<review_panel_message_id, msgs, nextMsg, panel_update_locks, posts,
                 widget, watch, plast>>

\* panel_message.edit(embed=embed, view=view)
TailEdit(t) ==
  /\ tails[t].pc = "edit"
  /\ LET m == tails[t].msg
         next == IF msgs[m].live \/ TailPlan(tails[t].origin).catch
                   THEN AfterPanel(t) ELSE "done"   \* NotFound leaves mark_reviewed
     IN /\ msgs' = IF msgs[m].live
                     THEN [msgs EXCEPT ![m].status = tails[t].status,
                                       ![m].queue = tails[t].queue]
                     ELSE msgs
        /\ tails' = [u \in TailIds |->
                       IF u = t THEN Finish(t, next)
                       ELSE IF u \in Computed(tails[t].guild)
                               /\ tails[u].rank < tails[t].rank /\ msgs[m].live
                         THEN [tails[u] EXCEPT !.late = TRUE]
                       ELSE IF u \in Computed(tails[t].guild)
                               /\ tails[u].rank > tails[t].rank
                         THEN [tails[u] EXCEPT !.rank = @ - 1]
                       ELSE tails[u]]
        /\ plast' = PDid(IF ~msgs[m].live THEN "EditNotFound"
                         ELSE IF tails[t].late THEN "StaleEdit" ELSE "Edit",
                         tails[t].origin, tails[t].guild, m)
  /\ panel_update_locks' = Release(t)
  /\ UNCHANGED <<review_panel_message_id, nextMsg, posts, widget, watch>>

\* _broadcast_full_update
TailBroadcast(t) ==
  /\ tails[t].pc = "bcast"
  /\ \E data \in get_full_widget_data(tails[t].guild) :
       widget' = [widget EXCEPT ![tails[t].guild] = data]
  /\ tails' = [tails EXCEPT ![t] = NoTail]
  /\ plast' = PDid("Broadcast", tails[t].origin, tails[t].guild, 0)
  /\ UNCHANGED <<review_panel_message_id, msgs, nextMsg, panel_update_locks, posts, watch>>

\* The handlers of the submission engine, each followed by its refresh; a
\* handler that awaits its refresh goes on only when the refresh is over.
\* PCore: opening, submitting, playing and completing, and the refresh steps.
PCore(G, U, M, K, V, T) ==
  \/ \E g \in G : OpenSession(g) /\ StartTail(T, g, "OpenSession", 0) /\ UNCHANGED <<wvars, bvars, fvars, mvars>>
  \/ \E g \in G, u \in U, k \in K : IngestCheck(g, u, k) /\ UNCHANGED <<wvars, pvars, bvars, fvars, mvars>>
  \/ \E k \in K : IngestAdd(k) /\ StartTail(T, h[k].guild, "IngestPanel", k)
                    /\ UNCHANGED <<wvars, bvars, fvars, mvars>>
  \/ \E k \in K : TailsOf(k) = {} /\ IngestPrioritize(k)
                    /\ StartTail(T, h[k].guild, "IngestBroadcast", 0) /\ UNCHANGED <<wvars, bvars, fvars, mvars>>
  \/ \E g \in G, m \in M, k \in K : DequeueSelect(g, m, k, V) /\ UNCHANGED <<wvars, pvars, bvars, fvars, mvars>>
  \/ \E g \in G, m \in M : DequeueEmpty(g, m) /\ UNCHANGED <<wvars, pvars, bvars, fvars, mvars>>
  \/ \E k \in K : DequeueMark(k, V) /\ UNCHANGED <<wvars, pvars, bvars, fvars, mvars>>
  \/ \E v \in V, m \in M : Complete(v, m) /\ StartTail(T, views[v].guild, "Complete", 0)
                             /\ UNCHANGED <<wvars, bvars, fvars, mvars>>
  \/ \E t \in T : TailLock(t) /\ UNCHANGED <<qvars, wvars, bvars, fvars, mvars>>
  \/ \E t \in T : TailFetch(t) /\ UNCHANGED <<qvars, wvars, bvars, fvars, mvars>>
  \/ \E t \in T : TailCompute(t) /\ UNCHANGED <<qvars, wvars, bvars, fvars, mvars>>
  \/ \E t \in T : TailEdit(t) /\ UNCHANGED <<qvars, wvars, bvars, fvars, mvars>>
  \/ \E t \in T : TailBroadcast(t) /\ UNCHANGED <<qvars, wvars, bvars, fvars, mvars>>

\* PRest: closing, the review timeout and the reset command.
PRest(G, K, V, T) ==
  \/ \E g \in G, k \in K : CloseClear(g, k) /\ UNCHANGED <<wvars, pvars, bvars, fvars, mvars>>
  \/ \E k \in K : CloseSetStatus(k) /\ StartTail(T, h[k].guild, "CloseSession", 0)
                    /\ UNCHANGED <<wvars, bvars, fvars, mvars>>
  \/ \E v \in V : Timeout(v) /\ StartTail(T, views[v].guild, "Timeout", 0)
                    /\ UNCHANGED <<wvars, bvars, fvars, mvars>>
  \/ \E g \in G, k \in K : ResetSelect(g, "command", k) /\ UNCHANGED <<wvars, pvars, bvars, fvars, mvars>>
  \/ \E g \in G : ResetNone(g, "command") /\ UNCHANGED <<wvars, pvars, bvars, fvars, mvars>>
  \/ \E k \in K : ResetApply(k) /\ StartTail(T, h[k].guild, "Reset", 0) /\ UNCHANGED <<wvars, bvars, fvars, mvars>>

PStep(G, U, M, K, V, T) == PCore(G, U, M, K, V, T) \/ PRest(G, K, V, T)

\* ---- PostPanel: setup_submission_panel, api_run_setup, the watcher -------

\* who performs the platform call: the bot's own command handler, or the web
\* server's request handler
Actor(path) == IF path = "web" THEN "http" ELSE "bot"
LiveMsgs(g) == {m \in MsgIds : msgs[m].guild = g /\ msgs[m].live}
PostsInFlight == {p \in PostIds : posts[p] # NoPost}

\* setup_submission_panel / api_run_setup('submission'): the review channel is
\* configured and found, then get_panel_message
PostStart(g, path, p) ==
  /\ posts[p] = NoPost
  /\ nextMsg + Cardinality({q \in PostIds : posts[q].pc \in {"fetched", "deleted"}})
       <= MaxMsgs
  /\ posts' = [posts EXCEPT ![p] = [NoPost EXCEPT !.path = path, !.guild = g,
                                     !.pc = "fetched", !.old = get_panel_message(g)]]
  /\ UNCHANGED <<review_panel_message_id, msgs, nextMsg, panel_update_locks, tails,
                 widget, watch, plast>>

\* old_panel.delete(), NotFound swallowed; the command then broadcasts
PostDelete(p) ==
  /\ posts[p].pc = "fetched"
  /\ posts' = [posts EXCEPT ![p].pc = "deleted"]
  /\ IF posts[p].old # 0 /\ msgs[posts[p].old].live
       THEN /\ msgs' = [msgs EXCEPT ![posts[p].old].live = FALSE]
            /\ plast' = PDid("Delete", Actor(posts[p].path), posts[p].guild, posts[p].old)
       ELSE UNCHANGED <<msgs, plast>>
  /\ IF posts[p].path = "command"
       THEN \E data \in get_full_widget_data(posts[p].guild) :
              widget' = [widget EXCEPT ![posts[p].guild] = data]
       ELSE UNCHANGED widget
  /\ UNCHANGED <<review_panel_message_id, nextMsg, panel_update_locks, tails, watch>>

\* get_panel_embed_and_view and review_channel.send; discord.Forbidden is
\* answered with the permission message (command) or 403 (web)
PostSend(p) ==
  /\ posts[p].pc = "deleted"
  /\ \E res \in {"ok", "forbidden"} :
       IF res = "ok"
         THEN /\ msgs' = [msgs EXCEPT ![nextMsg] =
                   [guild |-> posts[p].guild, live |-> TRUE,
                    status |-> submission_status[posts[p].guild],
                    queue |-> get_submission_queue_count(posts[p].guild)]]
              /\ nextMsg' = nextMsg + 1
              /\ posts' = [posts EXCEPT ![p].pc = "sent", ![p].new = nextMsg]
              /\ plast' = PDid("Send", Actor(posts[p].path), posts[p].guild, nextMsg)
         ELSE /\ posts' = [posts EXCEPT ![p] = NoPost]
              /\ plast' = PDid("PostRefused", Actor(posts[p].path), posts[p].guild, 0)
              /\ UNCHANGED <<msgs, nextMsg>>
  /\ UNCHANGED <<review_panel_message_id, panel_update_locks, tails, widget, watch>>

\* update_setting(review_panel_message_id, panel_message.id)
PostStore(p) ==
  /\ posts[p].pc = "sent"
  /\ review_panel_message_id' =
       [review_panel_message_id EXCEPT ![posts[p].guild] = posts[p].new]
  /\ posts' = [posts EXCEPT ![p].pc = "stored"]
  /\ UNCHANGED <<msgs, nextMsg, panel_update_locks, tails, widget, watch, plast>>

\* update_setting(submission_status, 'closed') and the answer of success
PostClose(p) ==
  /\ posts[p].pc = "stored"
  /\ submission_status' = [submission_status EXCEPT ![posts[p].guild] = "closed"]
  /\ posts' = [posts EXCEPT ![p] = NoPost]
  /\ plast' = PDid("Posted", Actor(posts[p].path), posts[p].guild, posts[p].new)
  /\ UNCHANGED <<subs, nextId, now, session_count, views, h, ever, last>>
  /\ UNCHANGED <<review_panel_message_id, msgs, nextMsg, panel_update_locks, tails,
                 widget, watch>>

\* somebody deletes the panel message in the channel
ExternalDelete(g) ==
  /\ \E m \in LiveMsgs(g) :
       /\ msgs' = [msgs EXCEPT ![m].live = FALSE]
       /\ plast' = PDid("ExternalDelete", "member", g, m)
  /\ UNCHANGED <<review_panel_message_id, nextMsg, panel_update_locks, tails, posts,
                 widget, watch>>

\* the cogs that define post_panel (role_giver.py, verification.py)
HasPostPanel(cog) == cog \in {"Verification", "Role Giver"}

\* PanelWatcherCog.check_single_panel(guild, "submissions"): the settings are
\* read and the referenced message is fetched
WatcherFetch(g) ==
  /\ watch[g] = "sleep"
  /\ review_panel_message_id[g] # 0
  /\ watch' = [watch EXCEPT ![g] = IF msgs[review_panel_message_id[g]].live
                                     THEN "sleep" ELSE "missing"]
  /\ plast' = PDid(IF msgs[review_panel_message_id[g]].live THEN "WatcherFound"
                   ELSE "WatcherMissing", "watcher", g, review_panel_message_id[g])
  /\ UNCHANGED <<review_panel_message_id, msgs, nextMsg, panel_update_locks, tails,
                 posts, widget>>

\* check_single_panel, the repost: cog.post_panel(channel) raises AttributeError
\* for a cog without post_panel, which the last except clause logs
WatcherRepost(g) ==
  /\ watch[g] = "missing"
  /\ ~HasPostPanel("Submissions")
  /\ watch' = [watch EXCEPT ![g] = "sleep"]
  /\ plast' = PDid("WatcherRepostFailed", "watcher", g, 0)
  /\ UNCHANGED <<review_panel_message_id, msgs, nextMsg, panel_update_locks, tails,
                 posts, widget>>

\* Posting the panel from the chat command and from the web panel, the
\* watcher, and members deleting the message.
PostStep(G, P) ==
  \/ \E g \in G, path \in {"command", "web"}, p \in P :
       PostStart(g, path, p) /\ UNCHANGED <<qvars, wvars, bvars, fvars, mvars>>
  \/ \E p \in P : PostDelete(p) /\ UNCHANGED <<qvars, wvars, bvars, fvars, mvars>>
  \/ \E p \in P : PostSend(p) /\ UNCHANGED <<qvars, wvars, bvars, fvars, mvars>>
  \/ \E p \in P : PostStore(p) /\ UNCHANGED <<qvars, wvars, bvars, fvars, mvars>>
  \/ \E p \in P : PostClose(p) /\ UNCHANGED <<wvars, bvars, fvars, mvars>>
  \/ \E g \in G : ExternalDelete(g) /\ UNCHANGED <<qvars, wvars, bvars, fvars, mvars>>
  \/ \E g \in G : WatcherFetch(g) /\ UNCHANGED <<qvars, wvars, bvars, fvars, mvars>>
  \/ \E g \in G : WatcherRepost(g) /\ UNCHANGED <<qvars, wvars, bvars, fvars, mvars>>

\* Handlers that end in UpdatePanel (start_submissions, on_message) and their
\* refreshes.
LockStep(G, U, K, T) ==
  \/ \E g \in G : OpenSession(g) /\ StartTail(T, g, "OpenSession", 0) /\ UNCHANGED <<wvars, bvars, fvars, mvars>>
  \/ \E g \in G, u \in U, k \in K : IngestCheck(g, u, k) /\ UNCHANGED <<wvars, pvars, bvars, fvars, mvars>>
  \/ \E k \in K : IngestAdd(k) /\ StartTail(T, h[k].guild, "IngestPanel", k)
                    /\ UNCHANGED <<wvars, bvars, fvars, mvars>>
  \/ \E k \in K : TailsOf(k) = {} /\ IngestPrioritize(k)
                    /\ StartTail(T, h[k].guild, "IngestBroadcast", 0) /\ UNCHANGED <<wvars, bvars, fvars, mvars>>
  \/ \E t \in T : TailLock(t) /\ UNCHANGED <<qvars, wvars, bvars, fvars, mvars>>
  \/ \E t \in T : TailFetch(t) /\ UNCHANGED <<qvars, wvars, bvars, fvars, mvars>>
  \/ \E t \in T : TailCompute(t) /\ UNCHANGED <<qvars, wvars, bvars, fvars, mvars>>
  \/ \E t \in T : TailEdit(t) /\ UNCHANGED <<qvars, wvars, bvars, fvars, mvars>>
  \/ \E t \in T : TailBroadcast(t) /\ UNCHANGED <<qvars, wvars, bvars, fvars, mvars>>

\* The same, with somebody deleting panel messages.
UpdateStep(G, U, K, T) ==
  \/ LockStep(G, U, K, T)
  \/ \E g \in G : ExternalDelete(g) /\ UNCHANGED <<qvars, wvars, bvars, fvars, mvars>>

\* ---- the widget's sockets (web_server.py, WebSocketManager) ---------------

Conns == 1 .. MaxConns

\* what ws_conn.send raises when it fails; both derive from Exception
SendErrors == {"ConnectionClosed", "RuntimeError"}

NoBroadcast == [guild |-> 0, connections |-> <<>>, i |-> 0, start |-> {},
                attempted |-> {}, failed |-> {}]

NoReturn == [guild |-> 0, start |-> {}, order |-> <<>>, attempted |-> {},
             failed |-> {}, raised |-> FALSE]

BInit ==
  /\ active_connections = [g \in Guilds |-> {}]
  /\ bc = NoBroadcast
  /\ blast = NoReturn

\* the orders in which list() may walk a set
ListsOf(S) ==
  {q \in [1 .. Cardinality(S) -> S] : \A i, j \in 1 .. Cardinality(S) : i # j => q[i] # q[j]}

\* websocket_endpoint with a valid token: the socket joins its guild's set
register(guild_id, ws_conn) ==
  /\ \A g \in Guilds : ws_conn \notin active_connections[g]
  /\ active_connections' = [active_connections EXCEPT ![guild_id] = @ \cup {ws_conn}]
  /\ UNCHANGED <<bc, blast>>

\* the endpoint's finally: the socket leaves the set
unregister(guild_id, ws_conn) ==
  /\ ws_conn \in active_connections[guild_id]
  /\ active_connections' = [active_connections EXCEPT ![guild_id] = @ \ {ws_conn}]
  /\ UNCHANGED <<bc, blast>>

\* the mutation of Caught: only a closed socket is expected
CaughtClosedOnly(e) == e = "ConnectionClosed"

\* except Exception: pass
Caught(e) == e \in SendErrors

Returned(raised) ==
  [guild |-> bc.guild, start |-> bc.start, order |-> bc.connections,
   attempted |-> bc.attempted, failed |-> bc.failed, raised |-> raised]

\* broadcast up to its first await: connections = list(active_connections[g])
BroadcastStart(guild_id) ==
  /\ bc = NoBroadcast
  /\ \E q \in ListsOf(active_connections[guild_id]) :
       bc' = [guild |-> guild_id, connections |-> q, i |-> 1,
              start |-> active_connections[guild_id],
              attempted |-> {}, failed |-> {}]
  /\ blast' = NoReturn
  /\ UNCHANGED active_connections

\* one turn of the loop: await ws_conn.send(...), which returns or raises
BroadcastSend ==
  /\ bc # NoBroadcast
  /\ bc.i <= Len(bc.connections)
  /\ LET ws_conn == bc.connections[bc.i] IN
     \E res \in {"ok"} \cup SendErrors :
       \/ /\ res = "ok"
          /\ bc' = [bc EXCEPT !.i = @ + 1, !.attempted = @ \cup {ws_conn}]
          /\ UNCHANGED blast
       \/ /\ res # "ok" /\ Caught(res)
          /\ bc' = [bc EXCEPT !.i = @ + 1, !.attempted = @ \cup {ws_conn},
                              !.failed = @ \cup {ws_conn}]
          /\ UNCHANGED blast
       \/ /\ res # "ok" /\ ~Caught(res)
          /\ blast' = [Returned(TRUE) EXCEPT !.attempted = @ \cup {ws_conn},
                                             !.failed = @ \cup {ws_conn}]
          /\ bc' = NoBroadcast
  /\ UNCHANGED active_connections

\* the loop is over: broadcast returns None
BroadcastReturn ==
  /\ bc # NoBroadcast
  /\ bc.i > Len(bc.connections)
  /\ blast' = Returned(FALSE)
  /\ bc' = NoBroadcast
  /\ UNCHANGED active_connections

BStep(G, C) ==
  \/ \E g \in G, c \in C : register(g, c) /\ UNCHANGED <<qvars, wvars, pvars, fvars, mvars>>
  \/ \E g \in G, c \in C : unregister(g, c) /\ UNCHANGED <<qvars, wvars, pvars, fvars, mvars>>
  \/ \E g \in G : BroadcastStart(g) /\ UNCHANGED <<qvars, wvars, pvars, fvars, mvars>>
  \/ BroadcastSend /\ UNCHANGED <<qvars, wvars, pvars, fvars, mvars>>
  \/ BroadcastReturn /\ UNCHANGED <<qvars, wvars, pvars, fvars, mvars>>

\* ---- full_update messages on their way to the widget ---------------------
\* (submissions.py _broadcast_full_update, web_server.py websocket_endpoint)

SnapIds == 1 .. MaxSnaps

NoData == [queue |-> 0, reviewing |-> NULL]

NoSnap == [kind |-> "-", guild |-> 0, conn |-> 0, pc |-> "-", data |-> NoData,
           ver |-> 0, connections |-> <<>>, i |-> 0]

NothingReceived == [got |-> FALSE, data |-> NoData, ver |-> 0]

FInit ==
  /\ snaps = [s \in SnapIds |-> NoSnap]
  /\ received = [c \in Conns |-> NothingReceived]

FreeSnap(s) ==
  /\ snaps[s] = NoSnap
  /\ \A r \in SnapIds : r < s => snaps[r] # NoSnap

\* on_message, from prioritize_submission to the call of _broadcast_full_update
IngestBroadcasts(k, s) ==
  /\ FreeSnap(s)
  /\ IngestPrioritize(k)
  /\ snaps' = [snaps EXCEPT ![s] = [NoSnap EXCEPT !.kind = "broadcast",
                                                    !.guild = h[k].guild,
                                                    !.pc = "compute"]]
  /\ UNCHANGED received

\* websocket_endpoint with a valid token, up to the await of get_full_widget_data
websocket_endpoint(guild_id, ws_conn, s) ==
  /\ FreeSnap(s)
  /\ register(guild_id, ws_conn)
  /\ snaps' = [snaps EXCEPT ![s] = [NoSnap EXCEPT !.kind = "initial",
                                                    !.guild = guild_id,
                                                    !.conn = ws_conn,
                                                    !.pc = "compute"]]
  /\ UNCHANGED received

\* get_full_widget_data reads the store; the endpoint goes on to send to its
\* own socket, broadcast to list(active_connections[guild_id]).  The store's
\* regular rows only grow here, so nextId tells an older state from a newer.
FullCompute(s) ==
  /\ snaps[s].pc = "compute"
  /\ \E d \in get_full_widget_data(snaps[s].guild) :
     \E q \in IF snaps[s].kind = "initial" THEN {<<snaps[s].conn>>}
              ELSE ListsOf(active_connections[snaps[s].guild]) :
       snaps' = [snaps EXCEPT ![s].pc = "send", ![s].data = d, ![s].ver = nextId,
                              ![s].connections = q, ![s].i = 1]
  /\ UNCHANGED received

\* await ws_conn.send(...) to a socket that is open
FullSend(s) ==
  /\ snaps[s].pc = "send"
  /\ snaps[s].i <= Len(snaps[s].connections)
  /\ received' = [received EXCEPT ![snaps[s].connections[snaps[s].i]] =
                    [got |-> TRUE, data |-> snaps[s].data, ver |-> snaps[s].ver]]
  /\ snaps' = [snaps EXCEPT ![s].i = @ + 1]

\* broadcast returns; the endpoint goes on to its receive loop
FullReturn(s) ==
  /\ snaps[s].pc = "send"
  /\ snaps[s].i > Len(snaps[s].connections)
  /\ snaps' = [snaps EXCEPT ![s] = NoSnap]
  /\ UNCHANGED received

\* Submitters' messages handled concurrently while widgets connect.
FullStep(G, U, K, C) ==
  \/ \E g \in G : OpenSession(g) /\ UNCHANGED <<wvars, pvars, bvars, fvars, mvars>>
  \/ \E g \in G, u \in U, k \in K : IngestCheck(g, u, k) /\ UNCHANGED <<wvars, pvars, bvars, fvars, mvars>>
  \/ \E k \in K : IngestAdd(k) /\ UNCHANGED <<wvars, pvars, bvars, fvars, mvars>>
  \/ \E k \in K, s \in SnapIds : IngestBroadcasts(k, s) /\ UNCHANGED <<wvars, pvars, bvars, mvars>>
  \/ \E g \in G, c \in C, s \in SnapIds : websocket_endpoint(g, c, s) /\ UNCHANGED <<qvars, wvars, pvars, mvars>>
  \/ \E s \in SnapIds : FullCompute(s) /\ UNCHANGED <<qvars, wvars, pvars, bvars, mvars>>
  \/ \E s \in SnapIds : FullSend(s) /\ UNCHANGED <<qvars, wvars, pvars, bvars, mvars>>
  \/ \E s \in SnapIds : FullReturn(s) /\ UNCHANGED <<qvars, wvars, pvars, bvars, mvars>>

\* ---- specifications -----------------------------------------------------

Init == QInit /\ WInit /\ PInit /\ BInit /\ FInit /\ MInit

\* the submission queue alone: the guild's roles play no part
InitQueue == Init /\ bot_top = 3 /\ role_cfg = CfgUsual /\ 9 \in members

\* Handlers of one guild, one at a time: a handler runs to its end before the
\* next one starts, while timers and single-await handlers fall in between.
Spec == InitQueue /\ [][QStep({1}, Users, {8}, {1}, ViewIds)]_vars

\* Two guilds side by side, one submitter, one review at a time.
SpecGuilds == InitQueue /\ [][QStep(Guilds, {1}, {8}, {1}, {1})]_vars

\* One guild whose submitters' messages are handled concurrently.
SpecIngest == InitQueue /\ [][IngestStep({1}, Users, Slots)]_vars

\* One guild whose two staff members press "Play the Queue" concurrently.
SpecDequeue == InitQueue /\ [][DequeueStep({1}, Users, Mods, Slots, ViewIds)]_vars

\* The web panel's producers and the single worker of the action queue.
SpecWorker == Init /\ [][WStep]_vars

\* The web panel's requests, answered with 200, 400 or 403, and the worker.
SpecApi == InitQueue /\ [][ApiStep]_vars

\* A guild whose panel was posted in an earlier run of the bot: the message is
\* there, it shows the closed, empty queue, and the settings designate it.
InitPanel ==
  /\ QInit /\ WInit /\ BInit /\ FInit /\ MInit
  /\ bot_top = 3 /\ role_cfg = CfgUsual /\ 9 \in members
  /\ review_panel_message_id = [g \in Guilds |-> g]
  /\ msgs = [m \in MsgIds |->
               IF m \in Guilds THEN [guild |-> m, live |-> TRUE, status |-> "closed",
                                     queue |-> 0]
               ELSE NoMsg]
  /\ nextMsg = 3
  /\ panel_update_locks = [g \in Guilds |-> 0]
  /\ tails = [t \in TailIds |-> NoTail]
  /\ posts = [p \in PostIds |-> NoPost]
  /\ widget = [g \in Guilds |-> [queue |-> 0, reviewing |-> NULL]]
  /\ watch = [g \in Guilds |-> "sleep"]
  /\ plast = PDid("init", "-", 0, 0)

\* The submission engine of one guild with the panel and widget refreshes, one
\* refresh at a time.
SpecPanel == InitPanel /\ [][PStep({1}, {1}, {8}, {1}, {1}, {1})]_vars

\* PostPanel calls of one guild that may overlap, with the watcher.
SpecPost == InitQueue /\ [][PostStep({1}, PostIds)]_vars

\* Two guilds whose panels may be deleted under their refreshes.
SpecStale == InitPanel /\ [][UpdateStep(Guilds, {1}, {1}, TailIds)]_vars

\* Two guilds whose panels stay in place.  asyncio.Lock wakes its waiters in
\* the order they came, so a waiting UpdatePanel gets the lock after finitely
\* many releases; the fetch, the recompute and the edit each return.
SpecLock ==
  /\ InitPanel
  /\ [][LockStep(Guilds, {1}, {1}, TailIds)]_vars
  /\ \A t \in TailIds :
       /\ SF_vars(TailLock(t) /\ UNCHANGED <<qvars, wvars, bvars, fvars, mvars>>)
       /\ WF_vars(TailFetch(t) /\ UNCHANGED <<qvars, wvars, bvars, fvars, mvars>>)
       /\ WF_vars(TailCompute(t) /\ UNCHANGED <<qvars, wvars, bvars, fvars, mvars>>)
       /\ WF_vars(TailEdit(t) /\ UNCHANGED <<qvars, wvars, bvars, fvars, mvars>>)

\* Reviews across restarts.  A View's timer is a task of the event loop that
\* fires once its 18000 seconds have run, so the on_timeout of a view that
\* stays in place is run in the end.
SpecReview ==
  /\ InitQueue
  /\ [][ReviewStep({1}, {1}, {8}, {1}, ViewIds)]_vars
  /\ \A v \in ViewIds : WF_vars(Timeout(v) /\ UNCHANGED <<wvars, pvars, bvars, fvars, mvars>>)

\* Reviews in a process that never restarts.
SpecNoRestart ==
  /\ InitQueue
  /\ [][NoRestartStep({1}, {1}, {8}, {1}, ViewIds)]_vars
  /\ \A v \in ViewIds : WF_vars(Timeout(v) /\ UNCHANGED <<wvars, pvars, bvars, fvars, mvars>>)

\* The send-message and warn forms of a guild set up as intended.
SpecForm == InitQueue /\ [][FormStep]_vars

\* Warnings in a guild set up as intended.
SpecWarn == InitQueue /\ [][WarnStep]_vars

\* The manage-staff form of a guild set up as intended.
SpecStaff == InitQueue /\ [][StaffStep]_vars

\* One guild's widgets and the full_update messages sent to them.
SpecFull == InitQueue /\ [][FullStep({1}, {1}, {1}, {1, 2})]_vars

\* The widget's sockets of two guilds and one broadcast at a time.
SpecBroadcast == InitQueue /\ [][BStep(Guilds, Conns)]_vars

\* The same, with the watcher's loop (tasks.loop(minutes=5)) running for ever.
SpecWatch ==
  /\ InitQueue
  /\ [][PostStep({1}, PostIds)]_vars
  /\ WF_vars(WatcherFetch(1) /\ UNCHANGED <<qvars, wvars, bvars, fvars, mvars>>)
  /\ WF_vars(WatcherRepost(1) /\ UNCHANGED <<qvars, wvars, bvars, fvars, mvars>>)

\* Staff open the session and play and complete tracks while members submit:
\* the refreshes of two handlers overlap.
SpecRace == InitPanel /\ [][PCore({1}, {1}, {8}, {1}, {1}, TailIds)]_vars

\* ======================= claims: submission queue ========================

Started(k, kind) == h[k].kind = "idle" /\ h'[k].kind = kind
Ended(k, kind) == h[k].kind = kind /\ h'[k].kind = "idle"
Fired(v) == views[v].st \in {"live", "pressed"} /\ views'[v].st = "none"

\* The timestamp a row is meant to sort by: the epoch for a row that was
\* prioritized, the time of its insertion otherwise.
EffectiveTs(i) == IF subs[i].boosted THEN Epoch ELSE subs[i].added_at

\* C1: whenever play_queue selects a row, the row is a pending 'regular' row of
\* that guild (never a reviewing or reviewed one) and no pending row of the
\* guild has a smaller effective submitted-at timestamp.
C1_DequeueEarliestPending ==
  [][\A k \in Slots :
       Started(k, "dequeue") =>
         LET s == h'[k].id
             g == h'[k].guild
         IN /\ s \in Rows(g)
            /\ subs[s].status = "pending"
            /\ \A j \in WithStatus(g, "pending") : EffectiveTs(s) <= EffectiveTs(j)]_vars

\* C1 witness: a prioritized first-time row has been selected ahead of an
\* older pending row that was not prioritized.
C1_Witness ==
  \E k \in Slots :
    /\ h[k].kind = "dequeue"
    /\ last.op = "DequeueSelect"
    /\ h[k].id \in DOMAIN subs
    /\ subs[h[k].id].boosted
    /\ \E j \in WithStatus(h[k].guild, "pending") :
         /\ ~subs[j].boosted
         /\ subs[j].added_at < subs[h[k].id].added_at

\* C2: reviewed is terminal: a row whose status is reviewed keeps that status
\* and is not deleted, whatever step follows.
C2_ReviewedTerminal ==
  [][\A i \in DOMAIN subs :
       subs[i].status = "reviewed" =>
         i \in DOMAIN subs' /\ subs'[i].status = "reviewed"]_vars

\* C3: with the play_queue handlers of a guild run one after the other, at
\* most one 'regular' row of the guild is reviewing.
C3_OneReviewing ==
  \A g \in Guilds : Cardinality(WithStatus(g, "reviewing")) <= 1

\* C4: every change of a row's status is pending -> reviewing,
\* reviewing -> reviewed or reviewing -> pending.
LegalEdge(a, b) ==
  \/ a = b
  \/ a = "pending" /\ b = "reviewing"
  \/ a = "reviewing" /\ b = "reviewed"
  \/ a = "reviewing" /\ b = "pending"

C4_LegalEdges ==
  [][\A i \in (DOMAIN subs) \cap (DOMAIN subs') :
       LegalEdge(subs[i].status, subs'[i].status)]_vars

\* C5: a reset (command, queued task or view timeout) that reaches a reviewing
\* row leaves it pending with a null reviewer; a command or task that finds no
\* reviewing row in the guild changes neither the store nor any handler.
IsReset(i) == subs'[i].status = "pending" /\ subs'[i].reviewer = NULL

C5_ResetYieldsPending ==
  [][/\ \A k \in Slots :
          (Ended(k, "reset") /\ h[k].id \in DOMAIN subs
             /\ subs[h[k].id].status = "reviewing") => IsReset(h[k].id)
     /\ \A v \in ViewIds :
          (Fired(v) /\ views[v].sub \in DOMAIN subs
             /\ subs[views[v].sub].status = "reviewing") => IsReset(views[v].sub)
     /\ \A g \in Guilds :
          (last'.op \in {"ResetNone", "ResetSelect"} /\ last'.guild = g
             /\ WithStatus(g, "reviewing") = {}) =>
            /\ last'.op = "ResetNone"
            /\ UNCHANGED <<subs, submission_status, session_count, views, h>>]_vars

\* C5 witness: a reset taken by the worker's task has just returned a row that
\* a staff member was reviewing to pending, reviewer cleared.
C5_Witness ==
  /\ last.op = "ResetTask" /\ last.n = 1
  /\ last.id \in DOMAIN subs
  /\ subs[last.id].status = "pending" /\ subs[last.id].reviewer = NULL
  /\ \E v \in ViewIds : views[v].st = "live" /\ views[v].sub = last.id

\* C6: the DELETE of stop_submissions removes exactly the guild's 'regular'
\* rows that are not reviewed; every other row (reviewed rows of the guild,
\* rows of other guilds) stays as it was, so the reviewed count is unchanged.
Purged(g) == {i \in Rows(g) : subs[i].status # "reviewed"}

C6_CloseSessionFrame ==
  [][\A k \in Slots :
       Started(k, "close") =>
         LET g == h'[k].guild
         IN /\ DOMAIN subs' = (DOMAIN subs) \ Purged(g)
            /\ \A i \in DOMAIN subs' : subs'[i] = subs[i]
            /\ \A g2 \in Guilds :
                 Cardinality({i \in DOMAIN subs' : subs'[i].guild = g2
                                /\ subs'[i].status = "reviewed"})
                   = get_total_reviewed_count(g2)
            /\ UNCHANGED <<nextId, session_count, views>>]_vars

\* C6 witness: a close has just purged rows of its guild while the guild holds
\* a reviewed row and another guild holds a row that is not reviewed.
C6_Witness ==
  /\ last.op = "CloseClear" /\ last.n > 0
  /\ WithStatus(last.guild, "reviewed") # {}
  /\ \E i \in DOMAIN subs : subs[i].guild # last.guild /\ subs[i].status # "reviewed"

\* C7: once the Ingest of a submitter's first-ever row has finished and the
\* row is pending, play_queue returns it, and not the older pending row of a
\* returning submitter.
C7_FirstTimerBeforeReturning ==
  \A c \in DOMAIN subs, b \in DOMAIN subs :
    (/\ subs[c].guild = subs[b].guild
     /\ subs[c].user # subs[b].user
     /\ subs[c].first /\ subs[c].done /\ subs[c].status = "pending"
     /\ ~subs[b].first /\ subs[b].done /\ subs[b].status = "pending"
     /\ subs[b].added_at < subs[c].added_at)
    => /\ c \in get_next_submission(subs[c].guild)
       /\ b \notin get_next_submission(subs[c].guild)

\* ======================= claims: action queue worker ======================

Range(q) == {q[i] : i \in 1..Len(q)}

\* C8: the worker dispatches the tasks in exactly the order they were put,
\* one at a time: the k-th dispatch is the k-th task put, a dispatch starts
\* only when every earlier one has ended, and a dispatch that raised leaves
\* the loop running with every later task still in the queue or dispatched.
C8_FifoOneAtATime ==
  /\ alive
  /\ \A k \in 1..Len(dispatched) : dispatched[k] = k
  /\ ended = SubSeq(dispatched, 1, Len(ended))
  /\ Len(dispatched) - Len(ended) = (IF wcur = NoTask THEN 0 ELSE 1)
  /\ Len(enq) = Len(dispatched) + Len(action_queue)

\* a task raised while later tasks were waiting, and they were all dispatched
C8_Witness ==
  /\ Len(enq) = MaxTasks
  /\ outcome[1] = "raised"
  /\ ended = <<1, 2, 3>>

\* C9: every task taken from the queue is acknowledged exactly once, on every
\* path, so that once the queue is drained nothing is left unacknowledged.
C9_AckedExactlyOnce ==
  /\ \A i \in Range(ended) : acks[i] = 1
  /\ (wcur = NoTask /\ action_queue = <<>>) => unfinished = 0

IsStaff(t, ra) == t.action = "manage_staff" /\ t.role_action = ra

AddThenRemove(i) ==
  /\ i + 1 <= Len(enq)
  /\ IsStaff(enq[i], "add") /\ IsStaff(enq[i + 1], "remove")
  /\ enq[i].target = enq[i + 1].target
  /\ enq[i].role_type = enq[i + 1].role_type

\* C10: an add and then a remove of the same role type for the same target:
\* the remove is never started before the add has ended, and when both have
\* been carried out the target does not hold the role.
C10_AddBeforeRemove ==
  \A i \in 1..(MaxTasks - 1) :
    AddThenRemove(i) =>
      /\ (i + 1) \in Range(dispatched) => i \in Range(ended)
      /\ (outcome[i] = "applied" /\ outcome[i + 1] = "applied"
            /\ ended # <<>> /\ ended[Len(ended)] \in {i, i + 1})
           => role_ids(enq[i].role_type)[1] \notin member_roles[ToInt(enq[i].target)]

\* both tasks waited in the queue together and both were carried out
C10_Witness ==
  /\ AddThenRemove(2)
  /\ outcome[2] = "applied" /\ outcome[3] = "applied"
  /\ ended = <<1, 2, 3>>

\* C11: a manage_staff dispatch changes a role only if the moderator and the
\* target resolve, a role of the requested type is configured and exists, and
\* the bot's top role is strictly above both that role and the target's top
\* role; otherwise no member's roles change, the task is not put back on the
\* queue, and it is acknowledged.
StaffMayAct(t) ==
  /\ 9 \in members
  /\ IsInt(t.target) /\ ToInt(t.target) \in members
  /\ role_cfg[t.role_type] # <<>>
  /\ role_cfg[t.role_type][1] \in Roles
  /\ bot_top > role_cfg[t.role_type][1]
  /\ \A r \in member_roles[ToInt(t.target)] : bot_top > r

C11_StaffPreconditions ==
  [][(wcur.action = "manage_staff" /\ wcur' = NoTask) =>
       /\ member_roles' # member_roles => StaffMayAct(wcur)
       /\ ~StaffMayAct(wcur) =>
            /\ member_roles' = member_roles
            /\ outcome'[wcur.id] = "dropped"
            /\ action_queue' = action_queue /\ enq' = enq
            /\ acks'[wcur.id] = acks[wcur.id] + 1
            /\ alive']_vars

\* a request for a member who outranks the bot was dropped, acknowledged, and
\* the roles are what they were at the start
C11_Witness ==
  /\ ended # <<>>
  /\ LET t == enq[ended[Len(ended)]]
     IN /\ IsStaff(t, "add") /\ t.target = "2" /\ t.role_type = "mod"
        /\ role_cfg = CfgUsual /\ 9 \in members
        /\ outcome[t.id] = "dropped" /\ acks[t.id] = 1
  /\ member_roles[2] = {3}

\* ======================= claims: panel and widget =========================

InProgress(g) ==
  {t \in TailIds : tails[t].guild = g /\ tails[t].pc \in {"fetch", "compute", "edit"}}

\* C12: the fetch-recompute-edit sequences on a guild's panel are strictly
\* serialized: never two of them in progress together, whichever handler runs
\* them, and no edit computed from an older state lands after a newer one.
C12_PanelUpdatesSerialized ==
  /\ \A g \in Guilds : Cardinality(InProgress(g)) <= 1
  /\ plast.op # "StaleEdit"

Quiescent ==
  /\ \A k \in Slots : h[k] = Idle
  /\ \A t \in TailIds : tails[t] = NoTail

PanelCurrent(g) ==
  get_panel_message(g) # 0 =>
    /\ msgs[get_panel_message(g)].status = submission_status[g]
    /\ msgs[get_panel_message(g)].queue = get_submission_queue_count(g)

WidgetCurrent(g) == widget[g] \in get_full_widget_data(g)

\* C13: every state-changing submission operation refreshes the panel and
\* broadcasts a full update before it finishes, so whenever no handler and no
\* refresh is in flight the panel shows the stored status and pending count
\* and the widget snapshot equals the stored pending count and current review.
C13_RefreshedWhenQuiescent ==
  Quiescent => \A g \in Guilds : PanelCurrent(g) /\ WidgetCurrent(g)

\* C14: no HTTP request handler performs a platform operation itself (sending
\* or deleting a message, changing roles, kick/ban/timeout): such effects are
\* carried out by the bot's own handlers and the action-queue worker only.
C14_NoPlatformCallFromHttp ==
  plast.op \in {"Send", "Delete", "Edit"} => plast.actor # "http"

\* C16: a PostPanel that succeeds has deleted the panel message referenced
\* before, if there was one, has posted a new message and has stored its id,
\* so that the stored reference designates the new message; a post refused for
\* lack of permission is answered with the permission failure.
C16_PostPanelContract ==
  [][\A p \in PostIds :
       /\ (posts[p].pc = "stored" /\ posts'[p] = NoPost) =>
            /\ plast'.op = "Posted" /\ plast'.msg = posts[p].new
            /\ posts[p].old # 0 => ~msgs'[posts[p].old].live
            /\ msgs'[posts[p].new].guild = posts[p].guild
            /\ review_panel_message_id'[posts[p].guild] = posts[p].new
       /\ (posts[p].pc = "deleted" /\ posts'[p] = NoPost) =>
            /\ plast'.op = "PostRefused"
            /\ msgs' = msgs /\ review_panel_message_id' = review_panel_message_id]_vars

\* C17: once no PostPanel is in flight, a guild has at most one live panel
\* message, and if it has one the stored review_panel_message_id designates it.
C17_OneLivePanel ==
  PostsInFlight = {} =>
    \A g \in Guilds :
      /\ Cardinality(LiveMsgs(g)) <= 1
      /\ \A m \in LiveMsgs(g) : review_panel_message_id[g] = m

StaleReference(g) ==
  review_panel_message_id[g] # 0 /\ ~msgs[review_panel_message_id[g]].live

\* C18: when the referenced panel message is gone while its id stays
\* configured, the watcher's periodic check repairs it: eventually the stored
\* reference designates a live panel message again.
C18_WatcherRepairs ==
  \A g \in {1} : StaleReference(g) ~> ~StaleReference(g)

C19_BroadcastReachesAll ==
  /\ blast.raised = FALSE
  /\ blast.attempted = blast.start
  /\ blast.failed \subseteq blast.attempted
  /\ Range(blast.order) = blast.start
  /\ bc # NoBroadcast =>
       /\ bc.start = Range(bc.connections)
       /\ bc.attempted = {bc.connections[j] : j \in 1 .. (bc.i - 1)}
       /\ bc.failed \subseteq bc.attempted

\* a broadcast returned after a failed send that was followed by a delivered
\* one, to a socket that had left the guild's set in the meantime
C19_Witness ==
  /\ blast.guild = 1
  /\ \E i, j \in 1 .. Len(blast.order) :
       /\ i < j
       /\ blast.order[i] \in blast.failed
       /\ blast.order[j] \in blast.attempted \ blast.failed
       /\ blast.order[j] \notin active_connections[1]
  /\ blast.attempted = blast.start
  /\ ~blast.raised

\* ---- C20 ----------------------------------------------------------------
\* the refreshes that are UpdatePanel: they run under the guild's lock
UpdatePanels == {t \in TailIds : tails[t] # NoTail /\ TailPlan(tails[t].origin).locked}

\* the step UpdatePanel t is about to take finds the reference stale: the fetch
\* finds nothing, or the message fetched is gone when the edit arrives
FindsStale(t) ==
  \/ tails[t].pc = "fetch" /\ get_panel_message(tails[t].guild) = 0
  \/ tails[t].pc = "edit" /\ ~msgs[tails[t].msg].live

\* C20: an UpdatePanel that finds the guild's panel reference stale edits no
\* message, goes on as it does after an edit (nothing is raised to its
\* caller), leaves the guild's lock free, and leaves the stored reference, the
\* submissions and the session status as they were.  A lock is only ever held
\* by an UpdatePanel of its own guild that is between its fetch and its edit,
\* so that a stale reference in one guild keeps no other guild's UpdatePanel
\* from entering.
C20_StaleReferenceNoOp ==
  [][/\ \A t \in UpdatePanels :
          (FindsStale(t) /\ tails'[t] # tails[t]) =>
             /\ panel_update_locks[tails[t].guild] = t
             /\ msgs' = msgs
             /\ tails'[t] = Finish(t, AfterPanel(t))
             /\ panel_update_locks'[tails[t].guild] = 0
             /\ \A g \in Guilds \ {tails[t].guild} :
                  panel_update_locks'[g] = panel_update_locks[g]
             /\ review_panel_message_id' = review_panel_message_id
             /\ subs' = subs
             /\ submission_status' = submission_status
     /\ \A g \in Guilds :
          panel_update_locks'[g] # 0 =>
             /\ tails'[panel_update_locks'[g]].guild = g
             /\ tails'[panel_update_locks'[g]].pc \in {"fetch", "compute", "edit"}
     /\ \A t \in UpdatePanels :
          (tails[t].pc = "lock" /\ tails'[t] # tails[t]) =>
             /\ panel_update_locks[tails[t].guild] = 0
             /\ panel_update_locks'[tails[t].guild] = t
    ]_vars

\* on_message's UpdatePanel of guild 1 has just found the message gone at its
\* edit: the reference is still stored, the lock is free, the submission is
\* there, while guild 2's panel, edited before, is being updated again
C20_Witness ==
  /\ plast = PDid("EditNotFound", "IngestPanel", 1, 1)
  /\ review_panel_message_id[1] = 1
  /\ get_panel_message(1) = 0
  /\ panel_update_locks[1] = 0
  /\ WithStatus(1, "pending") # {}
  /\ submission_status[1] = "open"
  /\ msgs[review_panel_message_id[2]].status = "open"
  /\ \E t \in UpdatePanels :
       tails[t].guild = 2 /\ panel_update_locks[2] = t /\ tails[t].pc = "edit"

\* ---- C21 ----------------------------------------------------------------
\* view v's "Mark as Reviewed" is pressed while its row is reviewing
CompletesReviewing(v) ==
  /\ last'.op = "Complete"
  /\ views[v].st = "live" /\ views'[v].st = "pressed"
  /\ views[v].sub \in DOMAIN subs
  /\ subs[views[v].sub].status = "reviewing"

\* C21: mark_reviewed on a row that is reviewing raises the guild's
\* get_total_reviewed_count by exactly one and leaves its pending count as it
\* was.
C21_CompleteCountsOnce ==
  [][\A v \in ViewIds :
       CompletesReviewing(v) =>
         /\ get_total_reviewed_count(views[v].guild)'
              = get_total_reviewed_count(views[v].guild) + 1
         /\ get_submission_queue_count(views[v].guild)'
              = get_submission_queue_count(views[v].guild)]_vars

\* the second row of one submitter has just been marked reviewed while a row
\* is waiting in the queue
C21_Witness ==
  /\ last.op = "Complete"
  /\ last.id \in WithStatus(last.guild, "reviewed")
  /\ get_total_reviewed_count(last.guild) = 2
  /\ \A i \in WithStatus(last.guild, "reviewed") : subs[i].user = subs[last.id].user
  /\ get_submission_queue_count(last.guild) = 1

\* ---- C22 ----------------------------------------------------------------
\* C22: the guild's session counter is zero right after start_submissions, and
\* it is zero (or absent from the dictionary, which reads as zero) once
\* stop_submissions has finished, so that a session never starts from the
\* count of an earlier one.
C22_CounterResetOnOpenAndClose ==
  [][/\ \A g \in Guilds :
          (last'.op = "OpenSession" /\ last'.guild = g) => session_count'[g] = 0
     /\ \A k \in Slots :
          Ended(k, "close") => session_count'[h[k].guild] = 0]_vars

\* ---- C23 ----------------------------------------------------------------
\* C23: on_message moves a row to the epoch only if no row of that submitter
\* was ever inserted in the guild before it, purged rows included; as only one
\* row of a submitter is the first ever, a submitter is boosted at most once.
C23_BoostOnlyFirstEver ==
  [][\A i \in (DOMAIN subs) \cap (DOMAIN subs') :
       (subs[i].submitted_at # Epoch /\ subs'[i].submitted_at = Epoch)
         => subs[i].first]_vars

\* ---- C24 ----------------------------------------------------------------
\* C24: a stored row that was the first its submitter ever inserted in the
\* guild carries the epoch timestamp once its on_message has finished,
\* however the on_message handlers interleave.
C24_FirstEverIsBoosted ==
  \A i \in DOMAIN subs :
    (subs[i].first /\ subs[i].done) => subs[i].submitted_at = Epoch

\* ---- C25 ----------------------------------------------------------------
\* C25: play_queue pressed in a guild that has no pending 'regular' row
\* answers "The submission queue is empty!" and returns: no row is selected
\* or changed, no review view is created, no handler is left suspended, and
\* the session's status and counter stay as they were.
C25_EmptyQueueNoEffect ==
  [][\A g \in Guilds :
       (/\ last'.op \in {"DequeueSelect", "DequeueEmpty"}
        /\ last'.guild = g
        /\ get_submission_queue_count(g) = 0) =>
         /\ last'.op = "DequeueEmpty"
         /\ UNCHANGED <<subs, views, h, submission_status, session_count, nextId>>]_vars

\* the queue was reported empty while the guild holds a row under review and
\* a reviewed one
C25_Witness ==
  /\ last.op = "DequeueEmpty"
  /\ get_submission_queue_count(last.guild) = 0
  /\ WithStatus(last.guild, "reviewing") # {}
  /\ WithStatus(last.guild, "reviewed") # {}

\* ---- C26 ----------------------------------------------------------------
\* C26: whatever a dispatch runs into (guild, moderator or target not found,
\* a malformed id, a refusal or an error of the platform, an error of the
\* store), the iteration ends inside the loop: the loop is still running, the
\* worker holds no task, the tasks that wait are untouched, and the task is
\* neither put back nor lost from the record.
C26_WorkerSurvivesErrors ==
  [][/\ alive /\ alive'
     /\ (wcur # NoTask /\ wcur' # wcur) =>
          /\ wcur' = NoTask
          /\ outcome'[wcur.id] \in {"applied", "dropped", "raised"}
          /\ action_queue' = action_queue
          /\ ended' = Append(ended, wcur.id)]_vars

\* a malformed target id and a platform error each raised out of their
\* dispatch, one after the other, and the worker has taken the third task
C26_Witness ==
  /\ alive
  /\ Len(enq) = 3
  /\ enq[1].action = "moderate_user" /\ ~IsInt(enq[1].target)
  /\ outcome[1] = "raised"
  /\ enq[2].action = "send_message" /\ outcome[2] = "raised"
  /\ ended = <<1, 2>>
  /\ wcur = enq[3]

\* ---- C27 ----------------------------------------------------------------
\* UpdatePanel t waits for its guild's lock / is inside the section with
\* what it recomputed itself, about to edit
Waits(t) == tails[t].pc = "lock" /\ TailPlan(tails[t].origin).locked
Edits(t) == tails[t].pc = "edit" /\ panel_update_locks[tails[t].guild] = t

\* C27: every UpdatePanel that waits for its guild's lock gets it and reaches
\* its own edit with the state it recomputed inside the section, and then
\* leaves the section; the edit it makes writes what it recomputed.  A call
\* that waits while its guild's lock is free can enter whatever the locks of
\* the other guilds are: it only ever waits for a holder of its own guild.
C27_WaitersAcquireInTurn ==
  /\ \A t \in TailIds : Waits(t) ~> Edits(t)
  /\ \A t \in TailIds : Edits(t) ~> ~Edits(t)
  /\ [][\A t \in TailIds :
          /\ (Waits(t) /\ panel_update_locks[tails[t].guild] = 0) =>
               ENABLED (TailLock(t) /\ UNCHANGED <<qvars, wvars, bvars, fvars, mvars>>)
          /\ (Waits(t) /\ ~Waits(t)') =>
               /\ panel_update_locks[tails[t].guild] = 0
               /\ panel_update_locks'[tails[t].guild] = t
          /\ (Edits(t) /\ ~Edits(t)' /\ msgs[tails[t].msg].live) =>
               /\ msgs'[tails[t].msg].status = tails[t].status
               /\ msgs'[tails[t].msg].queue = tails[t].queue]_vars

\* on_message's UpdatePanel of guild 1 is at its edit with the count it read,
\* 1, after it waited for start_submissions' UpdatePanel, which had read 0
\* before the row was inserted; an UpdatePanel of guild 2 holds guild 2's lock
C27_Witness ==
  /\ plast = PDid("Edit", "OpenSession", 1, 1)
  /\ msgs[1].status = "open" /\ msgs[1].queue = 0
  /\ \E t \in TailIds :
       /\ Edits(t) /\ tails[t].guild = 1 /\ tails[t].origin = "IngestPanel"
       /\ tails[t].queue = 1
  /\ \E u \in TailIds : tails[u].guild = 2 /\ panel_update_locks[2] = u

\* ---- C28 ----------------------------------------------------------------
\* play_queue handler k has selected its row and has not marked it yet
Selected(k) == h[k].kind = "dequeue" /\ h[k].pc = "selected"

\* C28: play_queue claims nothing when it selects: the row stays pending, so a
\* second play_queue of the guild that selects while the first has not marked
\* its row, the row still being the one get_next_submission returns, selects
\* that same row.  Each of the two then marks it: the row is reviewing, its
\* reviewer is the staff member of the mark made last, and each mark sends a
\* review view of its own for the row.
C28_DequeueDoubleClaim ==
  [][\A k \in Slots :
       /\ Started(k, "dequeue") =>
            /\ subs' = subs
            /\ subs[h'[k].id].status = "pending"
            /\ \A j \in Slots \ {k} :
                 (Selected(j) /\ h[j].guild = h'[k].guild
                    /\ get_next_submission(h[j].guild) = {h[j].id})
                   => h'[k].id = h[j].id
       /\ (Selected(k) /\ ~Selected(k)') =>
            /\ subs'[h[k].id].status = "reviewing"
            /\ subs'[h[k].id].reviewer = h[k].mod
            /\ \E v \in ViewIds :
                 /\ views[v].st = "none"
                 /\ views'[v] = [sub |-> h[k].id, guild |-> h[k].guild, st |-> "live"]
                 /\ \A w \in ViewIds \ {v} : views'[w] = views[w]]_vars

\* a mark has just left two live review views for one row, whose stored
\* reviewer is staff member 9, while another row waits in the queue
C28_Witness ==
  /\ last.op = "Dequeue"
  /\ views[1].st = "live" /\ views[2].st = "live"
  /\ views[1].sub = views[2].sub
  /\ subs[views[1].sub].status = "reviewing"
  /\ subs[views[1].sub].reviewer = 9
  /\ get_submission_queue_count(1) >= 1

\* ---- C29 ----------------------------------------------------------------
\* C29: a request answered with 200 has appended exactly one task, its own,
\* to the tail of the action queue in the same step, whatever waits there
\* already, and nothing of the worker has moved: the task is not dispatched
\* when the answer is given.  A request answered with 400 or 403 leaves the
\* queue and the record of tasks as they were.  A task leaves the queue only
\* from its head and into the worker's hands.
C29_RequestQueuesOneTask ==
  [][/\ (resp' # resp /\ resp'.code = 200) =>
          /\ Len(enq') = Len(enq) + 1
          /\ enq'[Len(enq')].id = resp'.task
          /\ enq'[Len(enq')].action = resp'.api
          /\ action_queue' = Append(action_queue, enq'[Len(enq')])
          /\ unfinished' = unfinished + 1
          /\ resp'.task \notin Range(dispatched')
          /\ UNCHANGED <<wcur, dispatched, ended, outcome, acks, members, member_roles>>
     /\ (resp' # resp /\ resp'.code # 200) =>
          /\ resp'.code \in {400, 403}
          /\ UNCHANGED <<action_queue, unfinished, enq, wcur, dispatched, ended,
                         outcome, acks, members, member_roles>>
     /\ resp' = resp =>
          \/ action_queue' = action_queue
          \/ /\ action_queue # <<>>
             /\ action_queue' = Tail(action_queue)
             /\ wcur' = Head(action_queue)]_vars

\* two requests alike in everything were both queued and both carried out, a
\* third task waits, and a request has just been answered with 403
C29_Witness ==
  /\ Len(enq) = 3
  /\ SameRequest(enq[1], enq[2])
  /\ enq[1].action = "send_message"
  /\ outcome[1] = "applied" /\ outcome[2] = "applied"
  /\ ended = <<1, 2>>
  /\ action_queue = <<enq[3]>>
  /\ resp = Refused("manage_staff", 403)

\* ---- C30 ----------------------------------------------------------------
\* C30: while a guild's submission_status is closed, the guild has no
\* 'regular' row that is pending or reviewing.
C30_ClosedMeansEmptyQueue ==
  \A g \in Guilds :
    submission_status[g] = "closed" =>
      WithStatus(g, "pending") \cup WithStatus(g, "reviewing") = {}

\* ---- C31 ----------------------------------------------------------------
\* C31: play_queue never sees the first-ever row of a submitter as pending
\* with the timestamp of its insertion: when it selects a row, no pending
\* first-ever row of the guild whose on_message is still running carries its
\* insertion timestamp, so that no older row that was not prioritized is
\* selected ahead of it.
C31_InsertAndBoostAtomic ==
  [][\A k \in Slots :
       Started(k, "dequeue") =>
         \A j \in WithStatus(h'[k].guild, "pending") :
           (subs[j].first /\ ~subs[j].done) => subs[j].submitted_at = Epoch]_vars

\* ---- C32 ----------------------------------------------------------------
\* C32: in every state a pending row has a null reviewer, and a reviewing or
\* reviewed row has the id of a staff member as its reviewer.
C32_ReviewerMatchesStatus ==
  \A i \in DOMAIN subs :
    /\ subs[i].status = "pending" => subs[i].reviewer = NULL
    /\ subs[i].status \in {"reviewing", "reviewed"} => subs[i].reviewer \in Mods

\* a reset has just returned a row to pending with its reviewer cleared while
\* another row of the guild is reviewed
C32_Witness ==
  /\ last.op \in {"ResetCommand", "ResetTask"} /\ last.n = 1
  /\ last.id \in WithStatus(last.guild, "pending")
  /\ subs[last.id].reviewer = NULL
  /\ \E i \in WithStatus(last.guild, "reviewed") : subs[i].reviewer = 8

\* ---- C33 ----------------------------------------------------------------
\* the rows of guild g that this step moves from reviewing to reviewed
Completed(g) ==
  {i \in Rows(g) \cap DOMAIN subs' :
     subs[i].status = "reviewing" /\ subs'[i].status = "reviewed"}

\* C33: the session counter of a guild is set to zero by start_submissions
\* and otherwise grows, step by step, by the number of rows of the guild that
\* the step moves from reviewing to reviewed, so that a press on a review
\* view whose row is reviewed already, was reset or was purged adds nothing;
\* stop_submissions reports the counter's value.
C33_SessionCountIsCompletions ==
  [][/\ \A g \in Guilds :
          IF last'.op = "OpenSession" /\ last'.guild = g
            THEN session_count'[g] = 0
            ELSE session_count'[g] = session_count[g] + Cardinality(Completed(g))
     /\ \A k \in Slots :
          Started(k, "close") => h'[k].id = session_count[h'[k].guild]]_vars


\* No full_update is on its way and no handler is suspended.
NothingInFlight ==
  /\ \A s \in SnapIds : snaps[s] = NoSnap
  /\ \A k \in Slots : h[k] = Idle

\* Once nothing is in flight, what a connected widget was sent last is what
\* get_full_widget_data returns.
LastSnapshotIsStored ==
  NothingInFlight =>
    \A g \in Guilds : \A c \in active_connections[g] :
      received[c].got /\ received[c].data \in get_full_widget_data(g)

C35_ReviewingEnds ==
  \A i \in 1 .. MaxSubs :
    (i \in DOMAIN subs /\ subs[i].status = "reviewing")
      ~> (i \notin DOMAIN subs \/ subs[i].status # "reviewing")

\* C36: when a manual reset of a guild has completed, none of the guild's
\* regular rows is reviewing.
C36_ResetLeavesNoneReviewing ==
  [][\A k \in Slots :
       Ended(k, "reset") =>
         \A i \in DOMAIN subs' :
           ~(subs'[i].guild = h[k].guild /\ subs'[i].type = "regular"
             /\ subs'[i].status = "reviewing")]_vars

\* C37: a send-message task of a request whose embed flag is set makes the
\* worker send an embed, title and description being the content split at its
\* first '|'; a task of a request without the flag makes it send the content
\* as plain text.
C37_EmbedFlagHonoured ==
  \A i \in 1 .. Len(enq) :
    (enq[i].action = "send_message" /\ outcome[i] = "applied") =>
      sent[i] = IF enq[i].is_embed = "True" THEN Embed(enq[i].content)
                ELSE Text(enq[i].content)

\* C38: a warn task whose moderator and target are members of a guild with a
\* log channel records exactly one warning against the target, attributed to
\* the moderator, and the task is acknowledged.
C38_WarnTaskRecordsWarning ==
  [][(/\ wcur.action = "moderate_user" /\ wcur.role_action = "warn"
      /\ wcur' = NoTask
      /\ 9 \in members /\ IsInt(wcur.target) /\ ToInt(wcur.target) \in members
      /\ warn_cfg.log_channel)
     => /\ wlast'.target = ToInt(wcur.target)
        /\ wlast'.moderator = 9
        /\ wlast'.count = get_warnings_count(warnings, ToInt(wcur.target)) + 1
        /\ acks'[wcur.id] = acks[wcur.id] + 1]_vars

\* C39: issue_warning records the warning; if the target's count has then
\* reached the limit the warnings of the target are cleared, otherwise the
\* count is kept and the call ends without an error; either way the target's
\* stored count is below the limit after the call.
C39_WarningEscalation ==
  [][\A t \in Users :
       (wlast'.n # wlast.n /\ wlast'.target = t /\ warn_cfg.log_channel) =>
         /\ wlast'.count = get_warnings_count(warnings, t) + 1
         /\ IF wlast'.count >= warning_limit
              THEN get_warnings_count(warnings', t) = 0
              ELSE /\ get_warnings_count(warnings', t) = wlast'.count
                   /\ wlast'.how = "returned"
         /\ get_warnings_count(warnings', t) < warning_limit]_vars

\* C40: a manage-staff request that lacks target_id, role_type or role_action
\* is answered with 400 and puts nothing on the queue; one of a user who is no
\* bot admin is answered with 403 and puts nothing on the queue.
C40_ManageStaffRejected ==
  [][\A a \in BOOLEAN, t \in {"1", "None"}, rt \in {"mod", "None"},
        ra \in {"add", "remove", "None"} :
       api_manage_staff(a, t, rt, ra) =>
         IF ~a THEN resp'.code = 403 /\ enq' = enq /\ action_queue' = action_queue
         ELSE ("None" \in {t, rt, ra}) =>
                resp'.code = 400 /\ enq' = enq /\ action_queue' = action_queue]_vars
====
